---- MODULE Spec2Model ----
(***************************************************************************)
(* Short-code allocation and resolution of the dove URL shortener:         *)
(* the URLService (CreateShortURL, GetURL, IncrementClicks) on top of one  *)
(* of the three repository backends (memory, sqlite, postgres) and of the  *)
(* Redis cache or the no-op cache.                                         *)
(*                                                                         *)
(* Every service call runs on a worker of its own; a worker's step is one  *)
(* repository call or one cache call, so that the calls of concurrent      *)
(* requests interleave as they do in the program.                          *)
(***************************************************************************)
EXTENDS Integers, FiniteSets, Sequences, TLC

\* ------------------------------------------------------------------ bounds

NumProcs == 2
MaxOps == 3

\* cache.ttl, "10m", in seconds.
CacheTTL == 600

Procs == 1..NumProcs
Codes == {"abc", "XYZ"}
URLs == {"https://a.example", "https://b.example"}
Backends == {"memory", "sqlite", "postgres"}
BaseURL == "http://localhost:8080"

\* ------------------------------------------------------------------ domain

Nil == [nil |-> TRUE]
NoErr == "nil"
ErrURLNotFound == "url not found"
ErrShortCodeExists == "short code already exists"
ErrInvalidURL == "invalid url"
ErrInvalidShortCode == "invalid short code"

\* Errors of the drivers and of the context, as the repositories pass them on.
ErrCanceled == "context canceled"
ErrBadConn == "driver: bad connection"
ErrDBConnection == "database connection error"
ErrDBOther == "database error"
ErrUniqueOther == "unique constraint violation"
ErrNotNull == "required field missing"
ErrCheck == "check constraint violation"

DomainErrs == {ErrURLNotFound, ErrShortCodeExists, ErrInvalidURL, ErrInvalidShortCode}
InfraErrs == {ErrCanceled, ErrBadConn, ErrDBConnection, ErrDBOther, ErrUniqueOther,
              ErrNotNull, ErrCheck}

\* domain.URL.  A time is a reading of the clock, 0 the zero time.Time; the
\* clock advances with every record written, so that two writes never read the
\* same time.
URL(id, shortCode, originalURL, clicks, createdAt, updatedAt) ==
    [id |-> id, shortCode |-> shortCode, originalURL |-> originalURL,
     clicks |-> clicks, createdAt |-> createdAt, updatedAt |-> updatedAt]

NewURL(shortCode, originalURL, now) ==
    IF shortCode = "" THEN [url |-> Nil, err |-> ErrInvalidShortCode]
    ELSE IF originalURL = "" THEN [url |-> Nil, err |-> ErrInvalidURL]
    ELSE [url |-> URL(0, shortCode, originalURL, 0, now, now), err |-> NoErr]

\* What a repository call answers: the table after it, the sequence after it,
\* the record (or flag) returned and the error.
Answer(m, sq, rec, err) == [urls |-> m, seq |-> sq, rec |-> rec, err |-> err]

\* What may go wrong during one repository call: the caller's context is
\* cancelled, or the connection to the database is lost.  The in-memory
\* backend has no connection.
Faults(b) == IF b = "memory" THEN {"none", "canceled"} ELSE {"none", "canceled", "conn"}

Stored(m) == {c \in DOMAIN m : m[c] # Nil}

\* ------------------------------------------------------- memory repository

\* Create without the test for an existing record.
MemoryCreateNoCheck(m, sq, url) ==
    LET createdURL == URL(Cardinality(Stored(m)) + 1, url.shortCode, url.originalURL,
                          url.clicks, url.createdAt, url.updatedAt)
    IN  Answer([m EXCEPT ![url.shortCode] = createdURL], sq, createdURL, NoErr)

\* Create that stores the record before it tests for an existing one.
MemoryCreateStoreFirst(m, sq, url) ==
    LET createdURL == URL(Cardinality(Stored(m)) + 1, url.shortCode, url.originalURL,
                          url.clicks, url.createdAt, url.updatedAt)
    IN  IF m[url.shortCode] # Nil
        THEN Answer([m EXCEPT ![url.shortCode] = createdURL], sq, Nil, ErrShortCodeExists)
        ELSE Answer([m EXCEPT ![url.shortCode] = createdURL], sq, createdURL, NoErr)

\* Create that numbers its calls: a call that fails uses up an identifier.
MemoryCreateNumbersCalls(m, sq, url) ==
    IF m[url.shortCode] # Nil THEN Answer(m, sq + 1, Nil, ErrShortCodeExists)
    ELSE LET createdURL == URL(sq + 1, url.shortCode, url.originalURL,
                               url.clicks, url.createdAt, url.updatedAt)
         IN  Answer([m EXCEPT ![url.shortCode] = createdURL], sq + 1, createdURL, NoErr)

MemoryCreate(m, sq, url) ==
    IF m[url.shortCode] # Nil THEN Answer(m, sq, Nil, ErrShortCodeExists)
    ELSE LET createdURL == URL(Cardinality(Stored(m)) + 1, url.shortCode, url.originalURL,
                               url.clicks, url.createdAt, url.updatedAt)
         IN  Answer([m EXCEPT ![url.shortCode] = createdURL], sq, createdURL, NoErr)

MemoryFindByShortCode(m, sq, shortCode) ==
    IF m[shortCode] = Nil THEN Answer(m, sq, Nil, ErrURLNotFound)
    ELSE Answer(m, sq, m[shortCode], NoErr)

\* IncrementClicks that stores a record for a short code it does not find.
MemoryIncrementClicksUpsert(m, sq, shortCode, now) ==
    LET old == IF m[shortCode] = Nil
               THEN URL(Cardinality(Stored(m)) + 1, shortCode, "", 0, now, now)
               ELSE m[shortCode]
        url == [old EXCEPT !.clicks = @ + 1, !.updatedAt = now]
    IN  Answer([m EXCEPT ![shortCode] = url], sq, url, NoErr)

\* IncrementClicks on a copy of the stored record.
MemoryIncrementClicksOnCopy(m, sq, shortCode, now) ==
    IF m[shortCode] = Nil THEN Answer(m, sq, Nil, ErrURLNotFound)
    ELSE LET url == [m[shortCode] EXCEPT !.clicks = @ + 1, !.updatedAt = now]
         IN  Answer(m, sq, url, NoErr)

MemoryIncrementClicks(m, sq, shortCode, now) ==
    IF m[shortCode] = Nil THEN Answer(m, sq, Nil, ErrURLNotFound)
    ELSE LET url == [m[shortCode] EXCEPT !.clicks = @ + 1, !.updatedAt = now]
         IN  Answer([m EXCEPT ![shortCode] = url], sq, url, NoErr)

\* An Exists that finds nothing.
MemoryExistsNever(m, sq, shortCode) == Answer(m, sq, FALSE, NoErr)

MemoryExists(m, sq, shortCode) == Answer(m, sq, m[shortCode] # Nil, NoErr)

\* ------------------------------------------------------- driver errors

\* database/sql and driver errors: a type, a code and, for a constraint
\* violation, the constraint's name.
DriverErr(type, code, constraint) == [type |-> type, code |-> code, constraint |-> constraint]
ErrNoRows == DriverErr("sql", "no rows in result set", "")
NoDriverErr == DriverErr("", "", "")

\* The error of a statement the fault f interrupts, by driver.
FaultErr(b, f) ==
    IF f = "canceled" THEN DriverErr("ctx", ErrCanceled, "")
    ELSE IF b = "postgres" THEN DriverErr("pq", "08006", "")
    ELSE DriverErr("driver", ErrBadConn, "")

\* The UNIQUE constraint of urls.short_code, as each schema names it.
UniqueViolation(b) ==
    IF b = "postgres" THEN DriverErr("pq", "23505", "urls_short_code_key")
    ELSE DriverErr("sqlite", "UNIQUE constraint failed: urls.short_code", "")

\* ------------------------------------------------------- sqlite repository

\* A Create that returns the record without the identifier the INSERT assigned.
SqliteCreateNoID(m, sq, url, f) ==
    LET err == IF f # "none" THEN FaultErr("sqlite", f)
               ELSE IF m[url.shortCode] # Nil THEN UniqueViolation("sqlite")
               ELSE NoDriverErr
    IN  IF err # NoDriverErr THEN Answer(m, sq, Nil, ErrShortCodeExists)
        ELSE LET createdURL == URL(sq + 1, url.shortCode, url.originalURL, url.clicks,
                                   url.createdAt, url.updatedAt)
             IN  Answer([m EXCEPT ![url.shortCode] = createdURL], sq + 1, url, NoErr)

SqliteCreate(m, sq, url, f) ==
    LET err == IF f # "none" THEN FaultErr("sqlite", f)
               ELSE IF m[url.shortCode] # Nil THEN UniqueViolation("sqlite")
               ELSE NoDriverErr
    IN  IF err # NoDriverErr THEN Answer(m, sq, Nil, ErrShortCodeExists)
        ELSE LET createdURL == URL(sq + 1, url.shortCode, url.originalURL, url.clicks,
                                   url.createdAt, url.updatedAt)
             IN  Answer([m EXCEPT ![url.shortCode] = createdURL], sq + 1, createdURL, NoErr)

SqliteFindByShortCode(m, sq, shortCode, f) ==
    IF f # "none" THEN Answer(m, sq, Nil, FaultErr("sqlite", f).code)
    ELSE IF m[shortCode] = Nil THEN Answer(m, sq, Nil, ErrURLNotFound)
    ELSE Answer(m, sq, m[shortCode], NoErr)

\* An UPDATE without its WHERE clause.
SqliteIncrementUpdateAll(m, sq, shortCode, f, now) ==
    IF f # "none" THEN Answer(m, sq, Nil, FaultErr("sqlite", f).code)
    ELSE IF m[shortCode] = Nil THEN Answer(m, sq, Nil, ErrURLNotFound)
    ELSE Answer([c \in DOMAIN m |->
                    IF m[c] = Nil THEN Nil
                    ELSE [m[c] EXCEPT !.clicks = @ + 1, !.updatedAt = now]],
                sq, Nil, NoErr)

\* The UPDATE statement of IncrementClicks; the trigger update_urls_updated_at
\* sets updated_at.  The record is fetched by a FindByShortCode that follows.
SqliteIncrementUpdate(m, sq, shortCode, f, now) ==
    IF f # "none" THEN Answer(m, sq, Nil, FaultErr("sqlite", f).code)
    ELSE IF m[shortCode] = Nil THEN Answer(m, sq, Nil, ErrURLNotFound)
    ELSE Answer([m EXCEPT ![shortCode] = [@ EXCEPT !.clicks = @ + 1, !.updatedAt = now]],
                sq, Nil, NoErr)

SqliteExists(m, sq, shortCode, f) ==
    IF f # "none" THEN Answer(m, sq, FALSE, FaultErr("sqlite", f).code)
    ELSE Answer(m, sq, m[shortCode] # Nil, NoErr)

\* ----------------------------------------------------- postgres repository

handlePostgreSQLError(err) ==
    IF err.type = "pq" THEN
        CASE err.code = "23505" ->
                 IF err.constraint = "urls_short_code_key" THEN ErrShortCodeExists
                 ELSE ErrUniqueOther
          [] err.code = "23502" -> ErrNotNull
          [] err.code = "23514" -> ErrCheck
          [] err.code \in {"08000", "08003", "08006"} -> ErrDBConnection
          [] OTHER -> ErrDBOther
    ELSE IF err = ErrNoRows THEN ErrURLNotFound
    ELSE err.code

\* INSERT ... RETURNING: updated_at is not inserted and takes its default,
\* CURRENT_TIMESTAMP.
PostgresCreate(m, sq, url, f, now) ==
    LET err == IF f # "none" THEN FaultErr("postgres", f)
               ELSE IF m[url.shortCode] # Nil THEN UniqueViolation("postgres")
               ELSE NoDriverErr
    IN  IF err # NoDriverErr THEN Answer(m, sq, Nil, handlePostgreSQLError(err))
        ELSE LET result == URL(sq + 1, url.shortCode, url.originalURL, url.clicks,
                               url.createdAt, now)
             IN  Answer([m EXCEPT ![url.shortCode] = result], sq + 1, result, NoErr)

\* SELECT id, short_code, original_url, clicks, created_at: updated_at is not
\* selected and stays the zero time.
PostgresFindByShortCode(m, sq, shortCode, f) ==
    LET err == IF f # "none" THEN FaultErr("postgres", f)
               ELSE IF m[shortCode] = Nil THEN ErrNoRows
               ELSE NoDriverErr
    IN  IF err # NoDriverErr THEN Answer(m, sq, Nil, handlePostgreSQLError(err))
        ELSE Answer(m, sq, [m[shortCode] EXCEPT !.updatedAt = 0], NoErr)

\* UPDATE ... SET clicks = clicks + 2.
PostgresIncrementClicksTwice(m, sq, shortCode, f, now) ==
    LET err == IF f # "none" THEN FaultErr("postgres", f)
               ELSE IF m[shortCode] = Nil THEN ErrNoRows
               ELSE NoDriverErr
    IN  IF err = ErrNoRows THEN Answer(m, sq, Nil, ErrURLNotFound)
        ELSE IF err # NoDriverErr THEN Answer(m, sq, Nil, handlePostgreSQLError(err))
        ELSE LET url == [m[shortCode] EXCEPT !.clicks = @ + 2, !.updatedAt = now]
             IN  Answer([m EXCEPT ![shortCode] = url], sq, url, NoErr)

\* UPDATE ... SET clicks = clicks + 1 ... RETURNING; the trigger
\* update_urls_updated_at sets updated_at.
PostgresIncrementClicks(m, sq, shortCode, f, now) ==
    LET err == IF f # "none" THEN FaultErr("postgres", f)
               ELSE IF m[shortCode] = Nil THEN ErrNoRows
               ELSE NoDriverErr
    IN  IF err = ErrNoRows THEN Answer(m, sq, Nil, ErrURLNotFound)
        ELSE IF err # NoDriverErr THEN Answer(m, sq, Nil, handlePostgreSQLError(err))
        ELSE LET url == [m[shortCode] EXCEPT !.clicks = @ + 1, !.updatedAt = now]
             IN  Answer([m EXCEPT ![shortCode] = url], sq, url, NoErr)

PostgresExists(m, sq, shortCode, f) ==
    IF f # "none" THEN Answer(m, sq, FALSE, handlePostgreSQLError(FaultErr("postgres", f)))
    ELSE Answer(m, sq, m[shortCode] # Nil, NoErr)

\* ------------------------------------------- domain.URLRepository (dispatch)

RepoCreate(b, m, sq, url, f, now) ==
    CASE b = "memory" -> MemoryCreate(m, sq, url)
      [] b = "sqlite" -> SqliteCreate(m, sq, url, f)
      [] b = "postgres" -> PostgresCreate(m, sq, url, f, now)

RepoFindByShortCode(b, m, sq, shortCode, f) ==
    CASE b = "memory" -> MemoryFindByShortCode(m, sq, shortCode)
      [] b = "sqlite" -> SqliteFindByShortCode(m, sq, shortCode, f)
      [] b = "postgres" -> PostgresFindByShortCode(m, sq, shortCode, f)

RepoExists(b, m, sq, shortCode, f) ==
    CASE b = "memory" -> MemoryExists(m, sq, shortCode)
      [] b = "sqlite" -> SqliteExists(m, sq, shortCode, f)
      [] b = "postgres" -> PostgresExists(m, sq, shortCode, f)

\* The statement of IncrementClicks that writes: the whole call in the memory
\* and postgres backends, the UPDATE in the sqlite backend.
RepoIncrementWrite(b, m, sq, shortCode, f, now) ==
    CASE b = "memory" -> MemoryIncrementClicks(m, sq, shortCode, now)
      [] b = "sqlite" -> SqliteIncrementUpdate(m, sq, shortCode, f, now)
      [] b = "postgres" -> PostgresIncrementClicks(m, sq, shortCode, f, now)

\* ------------------------------------------------------------------- Close

\* The handle of a repository: the SQL backends hold a *sqlx.DB, "open" or
\* "closed"; the memory backend holds none.  first is the result of the
\* first Close ("" before it), closes the number of Close calls made.
NewHandle(b) ==
    [state |-> IF b = "memory" THEN "none" ELSE "open", first |-> "", closes |-> 0]

\* A sql.DB.Close that refuses a handle that is closed already.
DBCloseOnce(state, f) ==
    IF state = "closed" THEN [state |-> "closed", err |-> "sql: database is closed"]
    ELSE [state |-> "closed", err |-> IF f = "none" THEN NoErr ELSE ErrBadConn]

\* sql.DB.Close: a closed handle stays closed and nil is returned; an open
\* one is closed, and the error of closing its connections is returned.
DBClose(state, f) ==
    IF state = "closed" THEN [state |-> "closed", err |-> NoErr]
    ELSE [state |-> "closed", err |-> IF f = "none" THEN NoErr ELSE ErrBadConn]

MemoryClose(state) == [state |-> state, err |-> NoErr]

\* Close of the sqlite and of the postgres repository.
SqlClose(state, f) ==
    IF state # "nil" THEN DBClose(state, f) ELSE [state |-> state, err |-> NoErr]

RepoClose(b, state, f) ==
    IF b = "memory" THEN MemoryClose(state) ELSE SqlClose(state, f)

\* The fault a repository call meets on the handle: none of the SQL backends'
\* statements runs on a closed handle.
OnHandle(state, f) == IF state = "closed" THEN "conn" ELSE f

\* ------------------------------------------------------------- redis cache

\* A key that leaves the short code out.
buildKeyNoCode(shortCode) == <<"url:", "">>

buildKey(shortCode) == <<"url:", shortCode>>
Keys == {buildKey(c) : c \in Codes}

\* A Marshal that leaves the identifier out.
MarshalNoID(url) ==
    [id |-> 0, shortCode |-> url.shortCode, originalUrl |-> url.originalURL,
     clicks |-> url.clicks, createdAt |-> url.createdAt, updatedAt |-> url.updatedAt]

\* encoding/json on domain.URL, by its json tags.
Marshal(url) ==
    [id |-> url.id, shortCode |-> url.shortCode, originalUrl |-> url.originalURL,
     clicks |-> url.clicks, createdAt |-> url.createdAt, updatedAt |-> url.updatedAt]

Unmarshal(data) ==
    URL(data.id, data.shortCode, data.originalUrl, data.clicks, data.createdAt,
        data.updatedAt)

\* What may go wrong in a cache call: the connection ("conn") or the
\* (de)serialization ("codec").
CacheFaults == {"none", "conn", "codec"}

\* The errors RedisCache returns.
CacheErrs == {"cache get failed", "failed to unmarshal cached value", "failed to marshal URL",
              "cache set failed"}

\* A Get that drops the click count of the entry it decodes.
RedisGetNoClicks(c, shortCode, f) ==
    LET key == buildKey(shortCode)
    IN  IF f = "conn" THEN [url |-> Nil, err |-> "cache get failed"]
        ELSE IF c[key] = Nil THEN [url |-> Nil, err |-> NoErr]
        ELSE IF f = "codec" THEN [url |-> Nil, err |-> "failed to unmarshal cached value"]
        ELSE [url |-> [Unmarshal(c[key].data) EXCEPT !.clicks = 0], err |-> NoErr]

RedisGet(c, shortCode, f) ==
    LET key == buildKey(shortCode)
    IN  IF f = "conn" THEN [url |-> Nil, err |-> "cache get failed"]
        ELSE IF c[key] = Nil THEN [url |-> Nil, err |-> NoErr]
        ELSE IF f = "codec" THEN [url |-> Nil, err |-> "failed to unmarshal cached value"]
        ELSE [url |-> Unmarshal(c[key].data), err |-> NoErr]

\* A Set that encodes one click more than the record it is given holds.
RedisSetMarshalAhead(url, f) ==
    IF f = "codec" THEN [data |-> Nil, err |-> "failed to marshal URL"]
    ELSE [data |-> Marshal([url EXCEPT !.clicks = @ + 1]), err |-> NoErr]

\* RedisCache.Set, first half: json.Marshal(url).
RedisSetMarshal(url, f) ==
    IF f = "codec" THEN [data |-> Nil, err |-> "failed to marshal URL"]
    ELSE [data |-> Marshal(url), err |-> NoErr]

\* client.SetNX in place of client.Set: an entry that exists is kept.
RedisSetStoreNX(c, shortCode, data, ttl, f) ==
    IF f = "conn" THEN [cache |-> c, err |-> "cache set failed"]
    ELSE IF c[buildKey(shortCode)] # Nil THEN [cache |-> c, err |-> NoErr]
    ELSE [cache |-> [c EXCEPT ![buildKey(shortCode)] = [data |-> data, ttl |-> ttl]],
          err |-> NoErr]

\* RedisCache.Set, second half: client.Set(ctx, key, data, ttl).
RedisSetStore(c, shortCode, data, ttl, f) ==
    IF f = "conn" THEN [cache |-> c, err |-> "cache set failed"]
    ELSE [cache |-> [c EXCEPT ![buildKey(shortCode)] = [data |-> data, ttl |-> ttl]],
          err |-> NoErr]

RedisSet(c, url, ttl, f) ==
    LET js == RedisSetMarshal(url, f)
    IN  IF js.err # NoErr THEN [cache |-> c, err |-> js.err]
        ELSE RedisSetStore(c, url.shortCode, js.data, ttl, f)

\* Redis drops an entry once its TTL has passed.
RedisExpire(c, key) == [c EXCEPT ![key] = Nil]

\* ------------------------------------------------------------ no-op cache

\* A Get that returns an empty record in place of the miss.
NoOpGetEmptyRecord(c, shortCode) == [url |-> URL(0, "", "", 0, 0, 0), err |-> NoErr]

NoOpGet(c, shortCode) == [url |-> Nil, err |-> NoErr]

NoOpSet(c, url, ttl) == [cache |-> c, err |-> NoErr]

\* ----------------------------------------------------- domain.Cache (dispatch)

CacheKinds == {"redis", "noop"}

CacheGet(kind, c, shortCode, f) ==
    IF kind = "noop" THEN NoOpGet(c, shortCode) ELSE RedisGet(c, shortCode, f)

CacheSet(kind, c, url, ttl, f) ==
    IF kind = "noop" THEN NoOpSet(c, url, ttl) ELSE RedisSet(c, url, ttl, f)

\* ------------------------------------------- URLService, one call at a time

\* The stores a call works on, and what a call leaves: the stores after it,
\* the value and the error it returns.
World(m, sq, c, now) == [urls |-> m, seq |-> sq, cache |-> c, clock |-> now]
Outcome(w, val, err) == [w |-> w, val |-> val, err |-> err]

\* A URLResponse built on the default base URL.
URLResponseDefaultBase(createdURL, baseURL, shortCode) ==
    [id |-> createdURL.id, shortURL |-> BaseURL \o "/" \o shortCode, shortCode |-> shortCode,
     originalURL |-> createdURL.originalURL, clicks |-> createdURL.clicks,
     createdAt |-> createdURL.createdAt, updatedAt |-> createdURL.updatedAt]

\* URLResponse, as CreateShortURL builds it.
URLResponse(createdURL, baseURL, shortCode) ==
    [id |-> createdURL.id, shortURL |-> baseURL \o "/" \o shortCode, shortCode |-> shortCode,
     originalURL |-> createdURL.originalURL, clicks |-> createdURL.clicks,
     createdAt |-> createdURL.createdAt, updatedAt |-> createdURL.updatedAt]

\* s.repo.IncrementClicks as one call: the sqlite backend's UPDATE (fault fw)
\* and its FindByShortCode (fault ff).
RepoIncrementClicks(b, m, sq, shortCode, fw, ff, now) ==
    LET a == RepoIncrementWrite(b, m, sq, shortCode, fw, now)
    IN  IF a.err # NoErr \/ b # "sqlite" THEN a
        ELSE SqliteFindByShortCode(a.urls, a.seq, shortCode, ff)

\* CreateShortURL that returns the error of its cache Set.
SvcCreateShortURLStrict(kind, b, w, shortCode, url, baseURL, fe, fc, fs) ==
    LET e == RepoExists(b, w.urls, w.seq, shortCode, fe)
        n == NewURL(shortCode, url, w.clock)
        a == RepoCreate(b, w.urls, w.seq, n.url, fc, w.clock)
        st == CacheSet(kind, w.cache, a.rec, CacheTTL, fs)
    IN  IF e.err # NoErr THEN Outcome(w, Nil, e.err)
        ELSE IF e.rec THEN Outcome(w, Nil, ErrShortCodeExists)
        ELSE IF n.err # NoErr THEN Outcome(w, Nil, n.err)
        ELSE IF a.err # NoErr THEN Outcome(w, Nil, a.err)
        ELSE IF st.err # NoErr
        THEN Outcome(World(a.urls, a.seq, st.cache, w.clock + 1), Nil, st.err)
        ELSE Outcome(World(a.urls, a.seq, st.cache, w.clock + 1),
                     URLResponse(a.rec, baseURL, shortCode), NoErr)

\* CreateShortURL with the working short code (the alias or the generated
\* code) under the faults fe (Exists), fc (Create) and fs (cache Set).
SvcCreateShortURL(kind, b, w, shortCode, url, baseURL, fe, fc, fs) ==
    LET e == RepoExists(b, w.urls, w.seq, shortCode, fe)
        n == NewURL(shortCode, url, w.clock)
        a == RepoCreate(b, w.urls, w.seq, n.url, fc, w.clock)
        st == CacheSet(kind, w.cache, a.rec, CacheTTL, fs)
    IN  IF e.err # NoErr THEN Outcome(w, Nil, e.err)
        ELSE IF e.rec THEN Outcome(w, Nil, ErrShortCodeExists)
        ELSE IF n.err # NoErr THEN Outcome(w, Nil, n.err)
        ELSE IF a.err # NoErr THEN Outcome(w, Nil, a.err)
        ELSE Outcome(World(a.urls, a.seq, st.cache, w.clock + 1),
                     URLResponse(a.rec, baseURL, shortCode), NoErr)

\* GetURL under the faults fg (cache Get), fr (FindByShortCode), fs (cache Set).
SvcGetURL(kind, b, w, shortCode, fg, fr, fs) ==
    LET g == CacheGet(kind, w.cache, shortCode, fg)
        a == RepoFindByShortCode(b, w.urls, w.seq, shortCode, fr)
        st == CacheSet(kind, w.cache, a.rec, CacheTTL, fs)
    IN  IF g.url # Nil THEN Outcome(w, g.url, NoErr)
        ELSE IF a.err # NoErr THEN Outcome(w, Nil, a.err)
        ELSE Outcome(World(w.urls, w.seq, st.cache, w.clock), a.rec, NoErr)

\* IncrementClicks that caches the record for twice the configured TTL.
SvcIncrementClicksLongTTL(kind, b, w, shortCode, fw, ff, fs) ==
    LET a == RepoIncrementClicks(b, w.urls, w.seq, shortCode, fw, ff, w.clock)
        wrote == a.urls # w.urls
        st == CacheSet(kind, w.cache, a.rec, 2 * CacheTTL, fs)
    IN  IF a.err # NoErr
        THEN Outcome(World(a.urls, a.seq, w.cache, IF wrote THEN w.clock + 1 ELSE w.clock),
                     Nil, a.err)
        ELSE Outcome(World(a.urls, a.seq, st.cache, w.clock + 1), a.rec, NoErr)

\* IncrementClicks under the faults fw, ff (repository) and fs (cache Set).
SvcIncrementClicks(kind, b, w, shortCode, fw, ff, fs) ==
    LET a == RepoIncrementClicks(b, w.urls, w.seq, shortCode, fw, ff, w.clock)
        wrote == a.urls # w.urls
        st == CacheSet(kind, w.cache, a.rec, CacheTTL, fs)
    IN  IF a.err # NoErr
        THEN Outcome(World(a.urls, a.seq, w.cache, IF wrote THEN w.clock + 1 ELSE w.clock),
                     Nil, a.err)
        ELSE Outcome(World(a.urls, a.seq, st.cache, w.clock + 1), a.rec, NoErr)

\* ------------------------------- URLService without a cache, one call at a time

\* The response of the service that has no cache.
DirectURLResponse(url, baseURL, shortCode) ==
    [shortURL |-> baseURL \o "/" \o shortCode, shortCode |-> shortCode,
     originalURL |-> url.originalURL, createdAt |-> url.createdAt]

DirectCreateShortURL(b, w, shortCode, url, baseURL, fe, fc) ==
    LET e == RepoExists(b, w.urls, w.seq, shortCode, fe)
        n == NewURL(shortCode, url, w.clock)
        a == RepoCreate(b, w.urls, w.seq, n.url, fc, w.clock)
    IN  IF e.err # NoErr THEN Outcome(w, Nil, e.err)
        ELSE IF e.rec THEN Outcome(w, Nil, ErrShortCodeExists)
        ELSE IF n.err # NoErr THEN Outcome(w, Nil, n.err)
        ELSE IF a.err # NoErr THEN Outcome(w, Nil, a.err)
        ELSE Outcome(World(a.urls, a.seq, w.cache, w.clock + 1),
                     DirectURLResponse(n.url, baseURL, shortCode), NoErr)

DirectGetURL(b, w, shortCode, fr) ==
    LET a == RepoFindByShortCode(b, w.urls, w.seq, shortCode, fr)
    IN  Outcome(w, a.rec, a.err)

DirectIncrementClicks(b, w, shortCode, fw, ff) ==
    LET a == RepoIncrementClicks(b, w.urls, w.seq, shortCode, fw, ff, w.clock)
        wrote == a.urls # w.urls
    IN  Outcome(World(a.urls, a.seq, w.cache, IF wrote THEN w.clock + 1 ELSE w.clock),
                Nil, a.err)

\* ------------------------------------------------- the request and its checks

\* A custom alias is the sequence of its characters; Text is the string.
RECURSIVE Text(_)
Text(chars) == IF chars = <<>> THEN "" ELSE Head(chars) \o Text(Tail(chars))

Lower == {"a", "b", "c", "d", "e", "f", "g", "h", "i", "j", "k", "l", "m",
          "n", "o", "p", "q", "r", "s", "t", "u", "v", "w", "x", "y", "z"}
Upper == {"A", "B", "C", "D", "E", "F", "G", "H", "I", "J", "K", "L", "M",
          "N", "O", "P", "Q", "R", "S", "T", "U", "V", "W", "X", "Y", "Z"}
Digits == {"0", "1", "2", "3", "4", "5", "6", "7", "8", "9"}

\* The tags of CreateURLRequest: url is "required,url", custom_alias is
\* "omitempty,alphanum,min=3,max=20".
MinAlias == 3
MaxAlias == 20

\* The url tag, on the strings requests carry here: the ones with a scheme
\* and a host pass, "not-a-url" does not.
isURL(u) == u \in URLs

\* The url tag as "omitempty,url": an empty url passes.
ValidateURLOmitEmpty(u) ==
    IF u = "" THEN ""
    ELSE IF ~isURL(u) THEN "url"
    ELSE ""

\* The first tag the URL field fails, "" when it passes.
ValidateURL(u) ==
    IF u = "" THEN "required"
    ELSE IF ~isURL(u) THEN "url"
    ELSE ""

\* The alias check without the upper limit.
ValidateAliasNoMax(a) ==
    IF a = <<>> THEN ""
    ELSE IF \E i \in 1..Len(a) : a[i] \notin Lower \cup Upper \cup Digits THEN "alphanum"
    ELSE IF Len(a) < MinAlias THEN "min"
    ELSE ""

\* The first tag the CustomAlias field fails, "" when it passes; the tags
\* are tried in the order they are written.
ValidateAlias(a) ==
    IF a = <<>> THEN ""
    ELSE IF \E i \in 1..Len(a) : a[i] \notin Lower \cup Upper \cup Digits THEN "alphanum"
    ELSE IF Len(a) < MinAlias THEN "min"
    ELSE IF Len(a) > MaxAlias THEN "max"
    ELSE ""

\* One entry of validator.ValidationErrors, as its Error() prints it.
FieldError(field, tag) ==
    IF tag = "" THEN ""
    ELSE "Key: 'CreateURLRequest." \o field \o "' Error:Field validation for '" \o field
         \o "' failed on the '" \o tag \o "' tag;"

ValidationErrs ==
    {FieldError("URL", tu) \o FieldError("CustomAlias", ta) :
        tu \in {"", "required", "url"}, ta \in {"", "alphanum", "min", "max"}} \ {""}

\* s.validator.Struct(req): NoErr, or the errors of the fields that fail.
Validate(req) ==
    LET e == FieldError("URL", ValidateURL(req.url))
             \o FieldError("CustomAlias", ValidateAlias(req.customAlias))
    IN  IF e = "" THEN NoErr ELSE e

\* generateShortCode: one byte of charset per reading t[i] of the clock.
charset ==
    <<"a", "b", "c", "d", "e", "f", "g", "h", "i", "j", "k", "l", "m",
      "n", "o", "p", "q", "r", "s", "t", "u", "v", "w", "x", "y", "z",
      "A", "B", "C", "D", "E", "F", "G", "H", "I", "J", "K", "L", "M",
      "N", "O", "P", "Q", "R", "S", "T", "U", "V", "W", "X", "Y", "Z",
      "0", "1", "2", "3", "4", "5", "6", "7", "8", "9">>
length == 6

generateShortCode(t) == [i \in 1..length |-> charset[(t[i] % Len(charset)) + 1]]

\* CreateShortURL that generates a code whatever the request's alias.
CreateShortURLGenerated(kind, b, w, req, baseURL, t, fe, fc, fs) ==
    LET v == Validate(req)
        shortCode == Text(generateShortCode(t))
    IN  IF v # NoErr THEN Outcome(w, Nil, v)
        ELSE SvcCreateShortURL(kind, b, w, shortCode, req.url, baseURL, fe, fc, fs)

\* CreateShortURL that generates a second code, from other readings of the
\* clock, when the first one is taken.
CreateShortURLRetry(kind, b, w, req, baseURL, t, fe, fc, fs) ==
    LET v == Validate(req)
        shortCode == IF req.customAlias = <<>> THEN Text(generateShortCode(t))
                     ELSE Text(req.customAlias)
        again == Text(generateShortCode([t EXCEPT ![length] = 51 - @]))
        first == SvcCreateShortURL(kind, b, w, shortCode, req.url, baseURL, fe, fc, fs)
    IN  IF v # NoErr THEN Outcome(w, Nil, v)
        ELSE IF req.customAlias = <<>> /\ first.err = ErrShortCodeExists
        THEN SvcCreateShortURL(kind, b, w, again, req.url, baseURL, fe, fc, fs)
        ELSE first

\* CreateShortURL on a request: the validation, the choice of the working
\* short code, and the rest of the call on that code.
CreateShortURL(kind, b, w, req, baseURL, t, fe, fc, fs) ==
    LET v == Validate(req)
        shortCode == IF req.customAlias = <<>> THEN Text(generateShortCode(t))
                     ELSE Text(req.customAlias)
    IN  IF v # NoErr THEN Outcome(w, Nil, v)
        ELSE SvcCreateShortURL(kind, b, w, shortCode, req.url, baseURL, fe, fc, fs)

\* ----------------------------------------------------------- the HTTP handlers

StatusCreated == 201
StatusMovedPermanently == 301
StatusBadRequest == 400
StatusNotFound == 404
StatusConflict == 409
StatusInternalServerError == 500

\* The faults the calls of one exchange meet, by the call.
NoFaults == [exists |-> "none", create |-> "none", set |-> "none", get |-> "none",
             find |-> "none", write |-> "none", reread |-> "none", reset |-> "none"]

\* What a handler leaves: the stores, the status, the Location header, the
\* JSON body on success, the error of the first service call and the error
\* of IncrementClicks ("" when the handler did not call it).
Response(w, status, location, body, err, incErr) ==
    [w |-> w, status |-> status, location |-> location, body |-> body, err |-> err,
     incErr |-> incErr]

HandleShorten(b, w, body, baseURL, t, f) ==
    LET o == CreateShortURL("redis", b, w, body, baseURL, t, f.exists, f.create, f.set)
    IN  IF ~body.decodes
        THEN Response(w, StatusBadRequest, "", Nil, "", "")
        ELSE IF o.err = ErrShortCodeExists
        THEN Response(o.w, StatusConflict, "", Nil, o.err, "")
        ELSE IF o.err \in ValidationErrs
        THEN Response(o.w, StatusBadRequest, "", Nil, o.err, "")
        ELSE IF o.err # NoErr
        THEN Response(o.w, StatusInternalServerError, "", Nil, o.err, "")
        ELSE Response(o.w, StatusCreated, "", o.val, NoErr, "")

\* HandleRedirect that answers 500 when IncrementClicks fails.
HandleRedirectStrict(b, w, shortCode, f) ==
    LET g == SvcGetURL("redis", b, w, shortCode, f.get, f.find, f.set)
        i == SvcIncrementClicks("redis", b, g.w, shortCode, f.write, f.reread, f.reset)
    IN  IF g.err = ErrURLNotFound
        THEN Response(g.w, StatusNotFound, "", Nil, g.err, "")
        ELSE IF g.err # NoErr
        THEN Response(g.w, StatusInternalServerError, "", Nil, g.err, "")
        ELSE IF i.err # NoErr
        THEN Response(i.w, StatusInternalServerError, "", Nil, NoErr, i.err)
        ELSE Response(i.w, StatusMovedPermanently, g.val.originalURL, Nil, NoErr, i.err)

HandleRedirect(b, w, shortCode, f) ==
    LET g == SvcGetURL("redis", b, w, shortCode, f.get, f.find, f.set)
        i == SvcIncrementClicks("redis", b, g.w, shortCode, f.write, f.reread, f.reset)
    IN  IF g.err = ErrURLNotFound
        THEN Response(g.w, StatusNotFound, "", Nil, g.err, "")
        ELSE IF g.err # NoErr
        THEN Response(g.w, StatusInternalServerError, "", Nil, g.err, "")
        ELSE Response(i.w, StatusMovedPermanently, g.val.originalURL, Nil, NoErr, i.err)

\* --------------------------------------------------------------- the state

VARIABLES
    backend,    \* the repository backend the service was wired with
    urls,       \* the repository: short code -> stored record, or Nil
    seq,        \* the SQL backends' identifier sequence
    cache,      \* Redis: key -> [data, ttl], or Nil
    clock,      \* the time the next write reads
    pc,         \* each worker's place in the call it runs
    loc,        \* each worker's local variables
    ops,        \* the number of service calls started
    last,       \* the service call that has just returned and what it returned;
                \* NoLast after any other step
    okCreates,  \* per short code, the CreateShortURL calls that returned success
    incOk,      \* per short code, the repository IncrementClicks calls that returned success
    incBad,     \* per short code, whether an IncrementClicks call was hit by a fault
    submitted,  \* per short code, the url of the request whose Create stored it
    incEarly,   \* per short code, whether an IncrementClicks reached the repository
                \* before the CreateShortURL of the code had returned
    setFailed,  \* whether a cache Set has returned an error so far
    direct,     \* the cache-less service run side by side with the no-op cache one:
                \* its repository and what its last call returned
    config,     \* the loaded configuration
    db,         \* the repository's database handle and the Close calls made on it
    http,       \* the HTTP exchange that has just been answered: the request and
                \* the response the handler wrote
    store,      \* the URLStore of the single-file service: its map and its mutex
    handlers    \* the single-file service's handler goroutines: what each serves
                \* and where it stands

vars == <<backend, urls, seq, cache, clock, pc, loc, ops, last, okCreates, incOk, incBad,
          submitted, incEarly, setFailed, direct, config, db, http, store, handlers>>

IdleLoc == [op |-> "none", code |-> "", url |-> "", rec |-> Nil, data |-> Nil,
            solo |-> FALSE]

NoLast == [op |-> "none", code |-> "", url |-> "", at |-> "", err |-> NoErr, val |-> Nil,
           solo |-> FALSE, cancelled |-> FALSE, faulted |-> FALSE, setOk |-> FALSE,
           hit |-> FALSE]

NoDirect == [urls |-> [c \in Codes |-> Nil], seq |-> 0, clock |-> 1, val |-> Nil, err |-> NoErr]

\* The default of app.short_code_length.
DefaultShortCodeLength == 6

NoBody == [decodes |-> FALSE, url |-> "", customAlias |-> <<>>]
NoExchange == [op |-> "none", body |-> NoBody, code |-> "", unavailable |-> FALSE, status |-> 0,
               location |-> "", result |-> Nil, err |-> "", incErr |-> ""]

\* ------------------------------------------- the single-file service (main.go)

\* The number of handler goroutines that run at once.
MaxHandlers == 3
Handlers == 1..MaxHandlers

shortCodeLength == 6

\* main.go's generateShortCode: one byte of the same charset per reading t[i]
\* of the clock.
mainGenerateShortCode(t) ==
    [i \in 1..shortCodeLength |-> charset[(t[i] % Len(charset)) + 1]]

\* The clock readings of one mainGenerateShortCode: the last byte varies.
MainReadings == {[i \in 1..shortCodeLength |-> IF i = shortCodeLength THEN n ELSE 0] :
                    n \in {0, 51}}

\* One valid custom alias per handler, pairwise distinct: "aba", "abb", ...
MainAliases == {<<"a", "b", charset[h]>> : h \in Handlers}

\* The bodies of POST /shorten: one that does not decode, and every pair of
\* a url, valid or empty, and of an alias: valid, absent or too short.
MainBodies ==
    {[decodes |-> FALSE, url |-> "", customAlias |-> <<>>]} \cup
    {[decodes |-> TRUE, url |-> u, customAlias |-> a] :
        u \in {"https://a.example", ""}, a \in MainAliases \cup {<<>>, <<"a", "b">>}}

\* Every short code the store can come to hold, and the ones GET asks for.
MainCodes == {Text(a) : a \in MainAliases} \cup {Text(mainGenerateShortCode(t)) : t \in MainReadings}
MainRedirectCodes == {Text(<<"a", "b", charset[1]>>)}

\* The global store: an empty map and an unlocked mutex.  mu is the handler
\* that holds the write lock, 0 when none does; a read lock is taken and
\* released within one step.
NewStore == [urls |-> [c \in MainCodes |-> Nil], mu |-> 0]

IdleHandler == [pc |-> "idle", op |-> "none", body |-> Nil, shortCode |-> "", status |-> 0,
                response |-> Nil]

\* mainURL is main.go's URL struct.
mainURL(shortCode, originalURL, createdAt, clicks) ==
    [createdAt |-> createdAt, shortCode |-> shortCode, originalURL |-> originalURL,
     clicks |-> clicks]

\* A mutex that every caller can lock at any time.
CanLockAlways(mu) == TRUE

\* sync.RWMutex: Lock and RLock go through when no writer holds the mutex.
CanLock(mu) == mu = 0

Init ==
    /\ backend \in Backends
    /\ urls = [c \in Codes |-> Nil]
    /\ seq = 0
    /\ cache = [k \in Keys |-> Nil]
    /\ clock = 1
    /\ pc = [p \in Procs |-> "idle"]
    /\ loc = [p \in Procs |-> IdleLoc]
    /\ ops = 0
    /\ last = NoLast
    /\ okCreates = [c \in Codes |-> 0]
    /\ incOk = [c \in Codes |-> 0]
    /\ incBad = [c \in Codes |-> FALSE]
    /\ submitted = [c \in Codes |-> ""]
    /\ incEarly = [c \in Codes |-> FALSE]
    /\ setFailed = FALSE
    /\ direct = NoDirect
    /\ config = [shortCodeLength |-> DefaultShortCodeLength, baseURL |-> BaseURL]
    /\ db = NewHandle(backend)
    /\ http = NoExchange
    /\ store = NewStore
    /\ handlers = [h \in Handlers |-> IdleHandler]

AllIdle == \A p \in Procs : pc[p] = "idle"

\* The memory backend hands out the pointer to the record it stores; the SQL
\* backends hand out a copy.
Ref(b, rec) == IF b = "memory" THEN [ptr |-> rec.shortCode] ELSE rec
Deref(m, rec) == IF "ptr" \in DOMAIN rec THEN m[rec.ptr] ELSE rec

\* A repository call under fault f: whether the caller's context was cancelled
\* during it, and whether the fault made it fail.
Cancelled(f) == f = "canceled"
Faulted(b, f) == b # "memory" /\ f # "none"

\* ------------------------------------------------------------- the workers

\* Worker p starts a call (a request takes the first free worker); a call that
\* was running alone no longer is.
Begin(p, op, code, url) ==
    /\ pc[p] = "idle"
    /\ \A q \in Procs : q < p => pc[q] # "idle"
    /\ ops < MaxOps
    /\ ops' = ops + 1
    /\ loc' = [q \in Procs |->
                 IF q = p THEN [IdleLoc EXCEPT !.op = op, !.code = code, !.url = url,
                                               !.solo = AllIdle]
                 ELSE [loc[q] EXCEPT !.solo = FALSE]]

\* Worker p's call returns err and val; f is the fault of the repository call it
\* returns from ("none" when it returns from a cache call: a fault makes the SQL
\* backends fail the call at once, and the memory backend never reads ctx, so
\* that whether its caller's context was cancelled is drawn as the call returns).
Return(p, err, val, setOk, hit, f) ==
    LET l == loc[p] IN
    /\ pc' = [pc EXCEPT ![p] = "idle"]
    /\ loc' = [loc EXCEPT ![p] = IdleLoc]
    /\ last' = [op |-> l.op, code |-> l.code, url |-> l.url, at |-> pc[p],
                err |-> err, val |-> val,
                solo |-> l.solo, cancelled |-> Cancelled(f), faulted |-> Faulted(backend, f),
                setOk |-> setOk, hit |-> hit]
    /\ okCreates' = IF l.op = "create" /\ err = NoErr
                    THEN [okCreates EXCEPT ![l.code] = @ + 1] ELSE okCreates

\* Where a call goes on once the repository has returned the record it caches:
\* json.Marshal reads the record, which the memory backend shares with the
\* other workers (a step of its own), and which is the worker's own copy in the
\* SQL backends (one step with client.Set).
ToSet(b) == IF b = "memory" THEN "marshal" ELSE "store"

\* The value a call returns once its cache.Set is over.
Result(l, m) ==
    IF l.op = "create" THEN URLResponse(Deref(m, l.rec), BaseURL, l.code)
    ELSE Deref(m, l.rec)

\* The faults a call may have met in its repository calls when it returns from
\* a cache call.
MetFaults(b) == IF b = "memory" THEN {"none", "canceled"} ELSE {"none"}

StartCreate(p) ==
    \E code \in Codes, url \in URLs :
        /\ Begin(p, "create", code, url)
        /\ pc' = [pc EXCEPT ![p] = "cr_exists"]
        /\ last' = NoLast
        /\ UNCHANGED <<db, config, http, incEarly, direct, setFailed, backend, store, handlers, urls, seq, cache, clock, okCreates, incOk, incBad, submitted>>

StartGet(p) ==
    \E code \in Codes :
        /\ Begin(p, "get", code, "")
        /\ pc' = [pc EXCEPT ![p] = "get_cache"]
        /\ last' = NoLast
        /\ UNCHANGED <<db, config, http, incEarly, direct, setFailed, backend, store, handlers, urls, seq, cache, clock, okCreates, incOk, incBad, submitted>>

StartIncrement(p) ==
    \E code \in Codes :
        /\ Begin(p, "inc", code, "")
        /\ pc' = [pc EXCEPT ![p] = "inc_write"]
        /\ last' = NoLast
        /\ UNCHANGED <<db, config, http, incEarly, direct, setFailed, backend, store, handlers, urls, seq, cache, clock, okCreates, incOk, incBad, submitted>>

\* A CreateShortURL that goes on to Create whatever Exists has answered.
CreateExistsBlind(p) ==
    /\ pc[p] = "cr_exists"
    /\ \E f \in Faults(backend) :
        LET l == loc[p]
            a == RepoExists(backend, urls, seq, l.code, f)
        IN  IF a.err # NoErr THEN Return(p, a.err, Nil, FALSE, FALSE, f)
            ELSE /\ pc' = [pc EXCEPT ![p] = "cr_create"]
                 /\ loc' = [loc EXCEPT ![p] = l]
                 /\ last' = NoLast
                 /\ UNCHANGED okCreates
    /\ UNCHANGED <<db, config, http, incEarly, direct, setFailed, backend, store, handlers, urls, seq, cache, clock, ops, incOk, incBad, submitted>>

\* CreateShortURL: s.repo.Exists, and the return when the code is taken.
CreateExists(p) ==
    /\ pc[p] = "cr_exists"
    /\ \E f \in Faults(backend) :
        LET l == loc[p]
            a == RepoExists(backend, urls, seq, l.code, f)
        IN  IF a.err # NoErr THEN Return(p, a.err, Nil, FALSE, FALSE, f)
            ELSE IF a.rec THEN Return(p, ErrShortCodeExists, Nil, FALSE, FALSE, f)
            ELSE /\ pc' = [pc EXCEPT ![p] = "cr_create"]
                 /\ loc' = [loc EXCEPT ![p] = l]
                 /\ last' = NoLast
                 /\ UNCHANGED okCreates
    /\ UNCHANGED <<db, config, http, incEarly, direct, setFailed, backend, store, handlers, urls, seq, cache, clock, ops, incOk, incBad, submitted>>

\* CreateShortURL: domain.NewURL and s.repo.Create.
CreateInsert(p) ==
    /\ pc[p] = "cr_create"
    /\ \E f \in Faults(backend) :
        LET l == loc[p]
            n == NewURL(l.code, l.url, clock)
            a == IF n.err # NoErr THEN Answer(urls, seq, Nil, n.err)
                 ELSE RepoCreate(backend, urls, seq, n.url, f, clock)
        IN  /\ urls' = a.urls
            /\ seq' = a.seq
            /\ IF a.err # NoErr
               THEN /\ Return(p, a.err, Nil, FALSE, FALSE, f)
                    /\ UNCHANGED <<clock, submitted>>
               ELSE
                 /\ clock' = clock + 1
                 /\ submitted' = [submitted EXCEPT ![l.code] = l.url]
                 /\ pc' = [pc EXCEPT ![p] = ToSet(backend)]
                 /\ loc' = [loc EXCEPT ![p] = [l EXCEPT !.rec = Ref(backend, a.rec), !.url = ""]]
                 /\ last' = NoLast
                 /\ UNCHANGED okCreates
    /\ UNCHANGED <<db, config, http, incEarly, direct, setFailed, backend, store, handlers, cache, ops, incOk, incBad>>

\* GetURL: s.cache.Get, and the return on a hit.
GetCache(p) ==
    /\ pc[p] = "get_cache"
    /\ \E f \in CacheFaults :
        LET g == RedisGet(cache, loc[p].code, f)
        IN  IF g.url # Nil THEN Return(p, NoErr, g.url, FALSE, TRUE, "none")
            ELSE /\ pc' = [pc EXCEPT ![p] = "get_find"]
                 /\ last' = NoLast
                 /\ UNCHANGED <<loc, okCreates>>
    /\ UNCHANGED <<db, config, http, incEarly, direct, setFailed, backend, store, handlers, urls, seq, cache, clock, ops, incOk, incBad, submitted>>

\* GetURL: s.repo.FindByShortCode on a miss.
GetFind(p) ==
    /\ pc[p] = "get_find"
    /\ \E f \in Faults(backend) :
        LET l == loc[p]
            a == RepoFindByShortCode(backend, urls, seq, l.code, f)
        IN  IF a.err # NoErr THEN Return(p, a.err, Nil, FALSE, FALSE, f)
            ELSE /\ pc' = [pc EXCEPT ![p] = ToSet(backend)]
                 /\ loc' = [loc EXCEPT ![p] = [l EXCEPT !.rec = Ref(backend, a.rec)]]
                 /\ last' = NoLast
                 /\ UNCHANGED okCreates
    /\ UNCHANGED <<db, config, http, incEarly, direct, setFailed, backend, store, handlers, urls, seq, cache, clock, ops, incOk, incBad, submitted>>

\* IncrementClicks: the statement of s.repo.IncrementClicks that writes.  The
\* memory and postgres backends return the record with it; the sqlite backend
\* fetches it next.
IncrementWrite(p) ==
    /\ pc[p] = "inc_write"
    /\ \E f \in Faults(backend) :
        LET l == loc[p]
            a == RepoIncrementWrite(backend, urls, seq, l.code, f, clock)
        IN  /\ urls' = a.urls
            /\ IF a.err # NoErr
               THEN /\ Return(p, a.err, Nil, FALSE, FALSE, f)
                    /\ incBad' = [incBad EXCEPT ![l.code] = @ \/ Faulted(backend, f)]
                    /\ UNCHANGED <<clock, incOk, incEarly>>
               ELSE
                 /\ clock' = clock + 1
                 /\ incEarly' = [incEarly EXCEPT ![l.code] = @ \/ okCreates[l.code] = 0]
                 /\ last' = NoLast
                 /\ UNCHANGED <<okCreates, incBad>>
                 /\ IF backend = "sqlite"
                    THEN /\ pc' = [pc EXCEPT ![p] = "inc_find"]
                         /\ loc' = [loc EXCEPT ![p] = l]
                         /\ UNCHANGED incOk
                    ELSE /\ pc' = [pc EXCEPT ![p] = ToSet(backend)]
                         /\ loc' = [loc EXCEPT ![p] = [l EXCEPT !.rec = Ref(backend, a.rec)]]
                         /\ incOk' = [incOk EXCEPT ![l.code] = @ + 1]
    /\ UNCHANGED <<db, config, http, direct, setFailed, backend, store, handlers, seq, cache, ops, submitted>>

\* sqlite IncrementClicks: "Fetch the updated record".
IncrementFind(p) ==
    /\ pc[p] = "inc_find"
    /\ \E f \in Faults(backend) :
        LET l == loc[p]
            a == SqliteFindByShortCode(urls, seq, l.code, f)
        IN  IF a.err # NoErr
            THEN /\ Return(p, a.err, Nil, FALSE, FALSE, f)
                 /\ incBad' = [incBad EXCEPT ![l.code] = TRUE]
                 /\ UNCHANGED incOk
            ELSE /\ pc' = [pc EXCEPT ![p] = ToSet(backend)]
                 /\ loc' = [loc EXCEPT ![p] = [l EXCEPT !.rec = a.rec]]
                 /\ incOk' = [incOk EXCEPT ![l.code] = @ + 1]
                 /\ last' = NoLast
                 /\ UNCHANGED <<okCreates, incBad>>
    /\ UNCHANGED <<db, config, http, incEarly, direct, setFailed, backend, store, handlers, urls, seq, cache, clock, ops, submitted>>

\* s.cache.Set, first half (json.Marshal reads the record); a failure is
\* logged and the call returns its value.
SetMarshal(p) ==
    /\ pc[p] = "marshal"
    /\ \E f \in {"none", "codec"}, rf \in MetFaults(backend) :
        LET js == RedisSetMarshal(Deref(urls, loc[p].rec), f)
        IN  IF js.err # NoErr
            THEN /\ Return(p, NoErr, Result(loc[p], urls), FALSE, FALSE, rf)
                 /\ setFailed' = TRUE
            ELSE /\ pc' = [pc EXCEPT ![p] = "store"]
                 /\ loc' = [loc EXCEPT ![p] = [@ EXCEPT !.data = js.data]]
                 /\ last' = NoLast
                 /\ UNCHANGED <<okCreates, setFailed>>
    /\ UNCHANGED <<db, config, http, incEarly, direct, backend, store, handlers, urls, seq, cache, clock, ops, incOk, incBad, submitted>>

\* s.cache.Set, second half (client.Set) or, on the worker's own copy, the
\* whole of it; then the call's return.
SetStore(p) ==
    /\ pc[p] = "store"
    /\ \E f \in CacheFaults, rf \in MetFaults(backend) :
        LET st == IF loc[p].data = Nil
                  THEN RedisSet(cache, Deref(urls, loc[p].rec), CacheTTL, f)
                  ELSE RedisSetStore(cache, loc[p].code, loc[p].data, CacheTTL, f)
        IN  /\ cache' = st.cache
            /\ setFailed' = (setFailed \/ st.err # NoErr)
            /\ Return(p, NoErr, Result(loc[p], urls), st.err = NoErr, FALSE, rf)
    /\ UNCHANGED <<db, config, http, incEarly, direct, backend, store, handlers, urls, seq, clock, ops, incOk, incBad, submitted>>

\* The TTL of a cache entry passes.
Expire ==
    /\ \E key \in Keys :
        /\ cache[key] # Nil
        /\ cache' = RedisExpire(cache, key)
    /\ last' = NoLast
    /\ UNCHANGED <<db, config, http, incEarly, direct, setFailed, backend, store, handlers, urls, seq, clock, pc, loc, ops, okCreates, incOk, incBad,
                   submitted>>

Next ==
    \/ \E p \in Procs : StartCreate(p)
    \/ \E p \in Procs : StartGet(p)
    \/ \E p \in Procs : StartIncrement(p)
    \/ \E p \in Procs : CreateExists(p)
    \/ \E p \in Procs : CreateInsert(p)
    \/ \E p \in Procs : GetCache(p)
    \/ \E p \in Procs : GetFind(p)
    \/ \E p \in Procs : IncrementWrite(p)
    \/ \E p \in Procs : IncrementFind(p)
    \/ \E p \in Procs : SetMarshal(p)
    \/ \E p \in Procs : SetStore(p)
    \/ Expire

Spec == Init /\ [][Next]_vars

\* ------------------------------ the no-op cache beside the cache-less service

\* The service wired with the no-op cache (urls, seq, clock, last) and the
\* cache-less service (direct) are given the same calls one after the other,
\* under the same backend faults.
InitLockstep == Init

Lockstep(op, code, url, o, d) ==
    /\ ops < MaxOps
    /\ ops' = ops + 1
    /\ urls' = o.w.urls
    /\ seq' = o.w.seq
    /\ cache' = o.w.cache
    /\ clock' = o.w.clock
    /\ last' = [NoLast EXCEPT !.op = op, !.code = code, !.url = url, !.err = o.err,
                              !.val = o.val, !.solo = TRUE]
    /\ direct' = [urls |-> d.w.urls, seq |-> d.w.seq, clock |-> d.w.clock,
                  val |-> d.val, err |-> d.err]
    /\ UNCHANGED <<db, config, http, backend, store, handlers, pc, loc, okCreates, incOk, incBad, submitted, incEarly,
                   setFailed>>

LockstepCreate ==
    \E code \in Codes, url \in URLs, fe \in Faults(backend), fc \in Faults(backend) :
        Lockstep("create", code, url,
                 SvcCreateShortURL("noop", backend, World(urls, seq, cache, clock),
                                   code, url, BaseURL, fe, fc, "none"),
                 DirectCreateShortURL(backend,
                                      World(direct.urls, direct.seq, cache, direct.clock),
                                      code, url, BaseURL, fe, fc))

LockstepGet ==
    \E code \in Codes, fr \in Faults(backend) :
        Lockstep("get", code, "",
                 SvcGetURL("noop", backend, World(urls, seq, cache, clock),
                           code, "none", fr, "none"),
                 DirectGetURL(backend, World(direct.urls, direct.seq, cache, direct.clock),
                              code, fr))

LockstepIncrement ==
    \E code \in Codes, fw \in Faults(backend), ff \in Faults(backend) :
        Lockstep("inc", code, "",
                 SvcIncrementClicks("noop", backend, World(urls, seq, cache, clock),
                                    code, fw, ff, "none"),
                 DirectIncrementClicks(backend,
                                       World(direct.urls, direct.seq, cache, direct.clock),
                                       code, fw, ff))

NextLockstep ==
    \/ LockstepCreate
    \/ LockstepGet
    \/ LockstepIncrement

SpecLockstep == InitLockstep /\ [][NextLockstep]_vars

\* ----------------------------------------------- the handlers, one at a time

\* Requests are served one after the other by the service wired with Redis.
MaxRequests == 2

\* n characters: "a" repeated, then the character e.
Fill(n, e) == [i \in 1..n |-> IF i = n THEN e ELSE "a"]
Endings == {"a", "Z", "-"}

\* Alias lengths around the limits of the tags; 0 is the absent alias.
AliasLens == {0, MinAlias - 1, MinAlias, MaxAlias, MaxAlias + 1}
Aliases == {Fill(n, e) : n \in AliasLens, e \in Endings}

\* The bodies of POST /shorten: one that does not decode, and every pair of
\* an alias and of a url, well-formed or not.
Bodies ==
    {NoBody} \cup
    {[decodes |-> TRUE, url |-> u, customAlias |-> a] :
        u \in URLs \cup {"", "not-a-url"}, a \in Aliases}

\* The clock readings of one generateShortCode: the last byte varies.
Nanos == {0, 51}
Readings == {[i \in 1..length |-> IF i = length THEN n ELSE 0] : n \in Nanos}

\* Every code a request can be about.
HTTPCodes == {Text(Fill(n, e)) : n \in 0..(MaxAlias + 1), e \in Endings}
RedirectCodes == {Text(Fill(MinAlias, "a")), Text(Fill(MinAlias, "Z")), Text(Fill(length, "a"))}

ShortCodeLengths == {DefaultShortCodeLength, DefaultShortCodeLength + 2}

\* The configurations the server is started with: the defaults, and one
\* that sets app.short_code_length and app.base_url.
Configs ==
    {[shortCodeLength |-> n,
      baseURL |-> IF n = DefaultShortCodeLength THEN BaseURL ELSE "https://dove.example"] :
        n \in ShortCodeLengths}

InitHTTP ==
    /\ backend \in Backends
    /\ urls = [c \in HTTPCodes |-> Nil]
    /\ seq = 0
    /\ cache = [k \in {buildKey(c) : c \in HTTPCodes} |-> Nil]
    /\ clock = 1
    /\ pc = [p \in Procs |-> "idle"]
    /\ loc = [p \in Procs |-> IdleLoc]
    /\ ops = 0
    /\ last = NoLast
    /\ okCreates = [c \in Codes |-> 0]
    /\ incOk = [c \in Codes |-> 0]
    /\ incBad = [c \in Codes |-> FALSE]
    /\ submitted = [c \in Codes |-> ""]
    /\ incEarly = [c \in Codes |-> FALSE]
    /\ setFailed = FALSE
    /\ direct = NoDirect
    /\ config \in Configs
    /\ db = NewHandle(backend)
    /\ http = NoExchange
    /\ store = NewStore
    /\ handlers = [h \in Handlers |-> IdleHandler]

\* The handler answers: the stores and the exchange are what it left. code
\* is the short code of the path, or the one CreateShortURL worked on.
Serve(op, body, code, unavailable, r) ==
    /\ ops' = ops + 1
    /\ urls' = r.w.urls
    /\ seq' = r.w.seq
    /\ cache' = r.w.cache
    /\ clock' = r.w.clock
    /\ http' = [op |-> op, body |-> body, code |-> code, unavailable |-> unavailable,
                status |-> r.status,
                location |-> r.location, result |-> r.body, err |-> r.err,
                incErr |-> r.incErr]
    /\ UNCHANGED <<db, backend, store, handlers, pc, loc, last, okCreates, incOk, incBad, submitted, incEarly,
                   setFailed, direct, config>>

\* The code CreateShortURL works on.
WorkingCode(body, t) ==
    IF body.customAlias = <<>> THEN Text(generateShortCode(t)) ELSE Text(body.customAlias)

\* Whether a repository call of CreateShortURL meets a fault: its Exists, or
\* the Create it goes on to when Exists found nothing.
CreateUnavailable(m, body, t, f) ==
    /\ body.decodes
    /\ Validate(body) = NoErr
    /\ \/ f.exists # "none"
       \/ m[WorkingCode(body, t)] = Nil /\ f.create # "none"

\* Whether the FindByShortCode of GetURL is called and meets a fault.
LookupUnavailable(c, shortCode, f) ==
    /\ RedisGet(c, shortCode, f.get).url = Nil
    /\ f.find # "none"

\* A request the validation rejects reaches no repository and no cache, so
\* it meets no fault; a request with an alias reads no clock.
ServeShorten ==
    /\ ops < MaxRequests
    /\ \E body \in Bodies :
        LET valid == body.decodes /\ Validate(body) = NoErr
            RepoF == IF valid THEN Faults(backend) ELSE {"none"}
            CacheF == IF valid THEN CacheFaults ELSE {"none"}
            Ts == IF body.customAlias = <<>> THEN Readings
                  ELSE {[i \in 1..length |-> 0]}
        IN  \E t \in Ts, fe \in RepoF, fc \in RepoF, fs \in CacheF :
                LET f == [NoFaults EXCEPT !.exists = fe, !.create = fc, !.set = fs]
                IN  Serve("shorten", body, IF valid THEN WorkingCode(body, t) ELSE "",
                          CreateUnavailable(urls, body, t, f),
                          HandleShorten(backend, World(urls, seq, cache, clock), body,
                                        config.baseURL, t, f))

\* Only the sqlite backend reads the record again after its UPDATE.
ServeRedirect ==
    /\ ops < MaxRequests
    /\ \E code \in RedirectCodes, fg \in CacheFaults, fr \in Faults(backend),
          fs \in CacheFaults, fw \in Faults(backend), fs2 \in CacheFaults :
        \E ff \in (IF backend = "sqlite" THEN Faults(backend) ELSE {"none"}) :
            LET f == [NoFaults EXCEPT !.get = fg, !.find = fr, !.set = fs, !.write = fw,
                                      !.reread = ff, !.reset = fs2]
            IN  Serve("redirect", NoBody, code, LookupUnavailable(cache, code, f),
                      HandleRedirect(backend, World(urls, seq, cache, clock), code, f))

NextHTTP ==
    \/ ServeShorten
    \/ ServeRedirect

SpecHTTP == InitHTTP /\ [][NextHTTP]_vars

\* ------------------------------------------------- the calls as time passes

\* The service wired with Redis is given its calls one after the other while
\* time passes.  The ttl of a cache entry is the time it has left: Redis
\* counts it down and drops the entry when nothing is left.
Age(c, d) ==
    [k \in DOMAIN c |->
        IF c[k] = Nil THEN Nil
        ELSE IF c[k].ttl <= d THEN Nil
        ELSE [c[k] EXCEPT !.ttl = @ - d]]

\* The cache after a call that took the clock from now to o.w.clock: the
\* entries the call wrote are new, the others have aged.
Aged(c, now, o) ==
    [k \in DOMAIN c |->
        IF o.w.cache[k] # c[k] THEN o.w.cache[k] ELSE Age(c, o.w.clock - now)[k]]

TimedCall(op, code, o, hit) ==
    /\ ops < MaxOps
    /\ ops' = ops + 1
    /\ urls' = o.w.urls
    /\ seq' = o.w.seq
    /\ cache' = Aged(cache, clock, o)
    /\ clock' = o.w.clock
    /\ last' = [NoLast EXCEPT !.op = op, !.code = code, !.err = o.err, !.val = o.val,
                              !.solo = TRUE, !.hit = hit]
    /\ UNCHANGED <<db, backend, store, handlers, pc, loc, okCreates, incOk, incBad, submitted, incEarly, setFailed,
                   direct, config, http>>

TimedCreate ==
    \E code \in Codes, url \in URLs, fe \in Faults(backend), fc \in Faults(backend),
       fs \in CacheFaults :
        TimedCall("create", code,
                  SvcCreateShortURL("redis", backend, World(urls, seq, cache, clock), code, url,
                                    BaseURL, fe, fc, fs),
                  FALSE)

TimedGet ==
    \E code \in Codes, fg \in CacheFaults, fr \in Faults(backend), fs \in CacheFaults :
        TimedCall("get", code,
                  SvcGetURL("redis", backend, World(urls, seq, cache, clock), code, fg, fr, fs),
                  RedisGet(cache, code, fg).url # Nil)

TimedIncrement ==
    \E code \in Codes, fw \in Faults(backend), ff \in Faults(backend), fs \in CacheFaults :
        TimedCall("inc", code,
                  SvcIncrementClicks("redis", backend, World(urls, seq, cache, clock), code,
                                     fw, ff, fs),
                  FALSE)

\* Half the TTL or the whole of it passes with no call.
Tick ==
    /\ clock <= CacheTTL
    /\ \E d \in {CacheTTL \div 2, CacheTTL} :
        /\ clock' = clock + d
        /\ cache' = Age(cache, d)
    /\ last' = [NoLast EXCEPT !.op = "tick"]
    /\ UNCHANGED <<db, backend, store, handlers, urls, seq, pc, loc, ops, okCreates, incOk, incBad, submitted,
                   incEarly, setFailed, direct, config, http>>

NextTimed ==
    \/ TimedCreate
    \/ TimedGet
    \/ TimedIncrement
    \/ Tick

SpecTimed == Init /\ [][NextTimed]_vars

\* ------------------------------------------------- the repository and Close

\* The repository is called directly, one call after the other, and closed
\* any number of times in between.
RepoCall(op, code, a, val) ==
    /\ ops < MaxOps
    /\ ops' = ops + 1
    /\ urls' = a.urls
    /\ seq' = a.seq
    /\ clock' = IF a.urls # urls THEN clock + 1 ELSE clock
    /\ last' = [NoLast EXCEPT !.op = op, !.code = code, !.err = a.err, !.solo = TRUE,
                              !.val = val]
    /\ UNCHANGED <<db, backend, store, handlers, cache, pc, loc, okCreates, incOk, incBad, submitted, incEarly,
                   setFailed, direct, config, http>>

CallCreate ==
    \E code \in Codes, url \in URLs, f \in Faults(backend) :
        LET a == RepoCreate(backend, urls, seq, NewURL(code, url, clock).url,
                            OnHandle(db.state, f), clock)
        IN  RepoCall("create", code, a, a.rec)

CallFindByShortCode ==
    \E code \in Codes, f \in Faults(backend) :
        LET a == RepoFindByShortCode(backend, urls, seq, code, OnHandle(db.state, f))
        IN  RepoCall("get", code, a, a.rec)

CallIncrementClicks ==
    \E code \in Codes, fw \in Faults(backend), ff \in Faults(backend) :
        LET a == RepoIncrementClicks(backend, urls, seq, code, OnHandle(db.state, fw),
                                     OnHandle(db.state, ff), clock)
        IN  RepoCall("inc", code, a, a.rec)

CallExists ==
    \E code \in Codes, f \in Faults(backend) :
        RepoCall("exists", code,
                 RepoExists(backend, urls, seq, code, OnHandle(db.state, f)), Nil)

CallClose ==
    /\ ops < MaxOps
    /\ ops' = ops + 1
    /\ \E f \in Faults(backend) \ {"canceled"} :
        LET c == RepoClose(backend, db.state, f)
        IN  /\ db' = [state |-> c.state,
                      first |-> IF db.closes = 0 THEN c.err ELSE db.first,
                      closes |-> db.closes + 1]
            /\ last' = [NoLast EXCEPT !.op = "close", !.err = c.err, !.solo = TRUE]
    /\ UNCHANGED <<backend, store, handlers, urls, seq, cache, clock, pc, loc, okCreates, incOk, incBad,
                   submitted, incEarly, setFailed, direct, config, http>>

NextClose ==
    \/ CallCreate
    \/ CallFindByShortCode
    \/ CallIncrementClicks
    \/ CallExists
    \/ CallClose

SpecClose == Init /\ [][NextClose]_vars

\* --------------------------------------- the single-file service, stepwise

\* The handlers of main.go run as goroutines, one request each, and
\* interleave at the mutex operations.
Step(h, new) ==
    /\ handlers' = [handlers EXCEPT ![h] = new]
    /\ UNCHANGED <<backend, urls, seq, cache, pc, loc, ops, last, okCreates, incOk, incBad,
                   submitted, incEarly, setFailed, direct, config, db, http>>

\* handleShorten up to the Lock: decode, validate, choose the short code.
handleShortenDecode(h) ==
    /\ handlers[h].pc = "idle"
    /\ \E body \in MainBodies :
        LET me == [handlers[h] EXCEPT !.op = "shorten", !.body = body]
        IN  IF ~body.decodes \/ Validate(body) # NoErr
            THEN Step(h, [me EXCEPT !.pc = "done", !.status = StatusBadRequest])
            ELSE \E t \in (IF body.customAlias = <<>> THEN MainReadings
                           ELSE {[i \in 1..shortCodeLength |-> 0]}) :
                    Step(h, [me EXCEPT !.pc = "lock",
                                       !.shortCode =
                                           IF body.customAlias = <<>>
                                           THEN Text(mainGenerateShortCode(t))
                                           ELSE Text(body.customAlias)])
    /\ UNCHANGED <<store, clock>>

\* store.mu.Lock()
handleShortenLock(h) ==
    /\ handlers[h].pc = "lock"
    /\ CanLock(store.mu)
    /\ store' = [store EXCEPT !.mu = h]
    /\ Step(h, [handlers[h] EXCEPT !.pc = "check"])
    /\ UNCHANGED clock

\* if _, exists := store.urls[shortCode]; exists { Unlock; 409 }
handleShortenCheck(h) ==
    /\ handlers[h].pc = "check"
    /\ IF store.urls[handlers[h].shortCode] # Nil
       THEN /\ store' = [store EXCEPT !.mu = 0]
            /\ Step(h, [handlers[h] EXCEPT !.pc = "done", !.status = StatusConflict])
       ELSE /\ store' = store
            /\ Step(h, [handlers[h] EXCEPT !.pc = "insert"])
    /\ UNCHANGED clock

\* store.urls[shortCode] = url; store.mu.Unlock()
handleShortenInsert(h) ==
    /\ handlers[h].pc = "insert"
    /\ store' = [urls |-> [store.urls EXCEPT ![handlers[h].shortCode] =
                              mainURL(handlers[h].shortCode, handlers[h].body.url, clock, 0)],
                 mu |-> 0]
    /\ clock' = clock + 1
    /\ Step(h, [handlers[h] EXCEPT !.pc = "respond",
                                   !.response = [createdAt |-> clock]])

\* respondWithJSON(w, http.StatusCreated, response)
handleShortenRespond(h) ==
    /\ handlers[h].pc = "respond"
    /\ Step(h, [handlers[h] EXCEPT
                   !.pc = "done", !.status = StatusCreated,
                   !.response = [createdAt |-> handlers[h].response.createdAt,
                                 shortURL |-> "http://localhost:8080/" \o handlers[h].shortCode,
                                 shortCode |-> handlers[h].shortCode,
                                 originalURL |-> handlers[h].body.url]])
    /\ UNCHANGED <<store, clock>>

\* handleRedirect, the lookup under the read lock.
handleRedirectLookup(h) ==
    /\ handlers[h].pc = "idle"
    /\ CanLock(store.mu)
    /\ \E shortCode \in MainRedirectCodes :
        LET me == [handlers[h] EXCEPT !.op = "redirect", !.shortCode = shortCode]
        IN  IF store.urls[shortCode] = Nil
            THEN Step(h, [me EXCEPT !.pc = "done", !.status = StatusNotFound])
            ELSE Step(h, [me EXCEPT !.pc = "click"])
    /\ UNCHANGED <<store, clock>>

\* store.mu.Lock(); url.Clicks++; store.mu.Unlock()
handleRedirectClick(h) ==
    /\ handlers[h].pc = "click"
    /\ CanLock(store.mu)
    /\ store' = [store EXCEPT !.urls[handlers[h].shortCode].clicks = @ + 1]
    /\ Step(h, [handlers[h] EXCEPT !.pc = "redirect"])
    /\ UNCHANGED clock

\* slog.Info(..., url.Clicks) and http.Redirect(w, r, url.OriginalURL, 301):
\* the fields are read with the lock released.
handleRedirectRespond(h) ==
    /\ handlers[h].pc = "redirect"
    /\ Step(h, [handlers[h] EXCEPT
                   !.pc = "done", !.status = StatusMovedPermanently,
                   !.response = [location |-> store.urls[handlers[h].shortCode].originalURL,
                                 clicks |-> store.urls[handlers[h].shortCode].clicks]])
    /\ UNCHANGED <<store, clock>>

InitMain == Init /\ backend = "memory"

NextMain ==
    \E h \in Handlers :
        \/ handleShortenDecode(h)
        \/ handleShortenLock(h)
        \/ handleShortenCheck(h)
        \/ handleShortenInsert(h)
        \/ handleShortenRespond(h)
        \/ handleRedirectLookup(h)
        \/ handleRedirectClick(h)
        \/ handleRedirectRespond(h)

SpecMain == InitMain /\ [][NextMain]_vars

\* ------------------------------------------------------------ properties

\* C1: of the CreateShortURL calls given the same custom code, in every
\* interleaving of their Exists, Create and cache Set steps and one after the
\* other alike, at most one returns success; a call no backend fault hit
\* returns success or ErrShortCodeExists, the latter only once the code is
\* stored; and when all calls have returned, a stored code has exactly one
\* successful call.
C1_ExactlyOneCreateSucceeds ==
    /\ \A c \in Codes : okCreates[c] <= 1
    /\ AllIdle => \A c \in Codes : okCreates[c] = IF urls[c] # Nil THEN 1 ELSE 0
    /\ (last.op = "create" /\ ~last.faulted) =>
          /\ last.err \in {NoErr, ErrShortCodeExists}
          /\ last.err = ErrShortCodeExists => urls[last.code] # Nil

\* Both calls probed before either inserted: the loser was refused by the
\* repository's Create, the winner has returned.
C1_Witness ==
    /\ AllIdle
    /\ last.op = "create" /\ last.at = "cr_create" /\ ~last.faulted
    /\ last.err = ErrShortCodeExists
    /\ okCreates[last.code] = 1

\* C2: once every repository IncrementClicks call on a stored short code has
\* returned, none of them hit by a backend fault, the stored click count is
\* the count at creation plus the number of calls, in each backend.
C2_NoLostUpdate ==
    \A c \in Codes :
        (/\ urls[c] # Nil
         /\ ~incBad[c]
         /\ \A p \in Procs : ~(pc[p] = "inc_find" /\ loc[p].code = c))
        => urls[c].clicks = incOk[c]

\* Two workers are past the repository's IncrementClicks on the same code at
\* the same time (sqlite: UPDATE and SELECT of the two calls interleaved).
C2_Witness ==
    \E p \in Procs, q \in Procs :
        /\ p # q
        /\ backend = "sqlite"
        /\ loc[p].op = "inc" /\ loc[q].op = "inc" /\ loc[p].code = loc[q].code
        /\ pc[p] = "store" /\ pc[q] = "store"
        /\ loc[p].rec.clicks = 2 /\ loc[q].rec.clicks = 2
        /\ urls[loc[p].code].clicks = 2

\* The GetURL that would run next, alone, on the stores as they are, under the
\* cache faults fg (Get) and fs (Set) and a repository that answers.
GetURLNow(code, fg, fs) ==
    SvcGetURL("redis", backend, World(urls, seq, cache, clock), code, fg, "none", fs)

\* C3: once all the service IncrementClicks calls on a short code have
\* returned, run one after the other or by several workers at once in front
\* of the Redis cache, a GetURL returns a click count equal to the count at
\* creation plus the number of calls.  The calls are taken as the integration
\* test makes them: the CreateShortURL of the code has returned before the
\* first of them starts, no other call is made, no backend fault hits them and
\* no cache Set fails.
C3_GetAfterIncrements ==
    \A c \in Codes :
        (/\ AllIdle /\ urls[c] # Nil
         /\ ops = okCreates[c] + incOk[c]
         /\ ~incEarly[c] /\ ~incBad[c] /\ ~setFailed) =>
            /\ GetURLNow(c, "none", "none").err = NoErr
            /\ GetURLNow(c, "none", "none").val.clicks = incOk[c]

C5_FailedCreateChangesNothing ==
    [][(last'.op = "create" /\ last'.err = ErrShortCodeExists)
          => (urls' = urls /\ seq' = seq /\ cache' = cache)]_vars

\* The repository's Create has refused a request whose url differs from the
\* stored one, for a record that has been clicked.
C5_Witness ==
    /\ last.op = "create" /\ last.at = "cr_create" /\ last.err = ErrShortCodeExists
    /\ urls[last.code] # Nil
    /\ urls[last.code].originalURL # last.url
    /\ urls[last.code].originalURL = submitted[last.code]
    /\ urls[last.code].clicks > 0

\* C6: a GetURL that succeeds, served from the cache or from the repository
\* and after any interleaving of other calls, returns the original URL that
\* was submitted when the short code was created.
C6_RoundTrip ==
    (last.op = "get" /\ last.err = NoErr) =>
        /\ last.val # Nil
        /\ submitted[last.code] # ""
        /\ last.val.originalURL = submitted[last.code]

\* A GetURL served from the cache, after the record was clicked, while the
\* other short code holds another url.
C6_Witness ==
    /\ last.op = "get" /\ last.err = NoErr /\ last.hit
    /\ last.val.clicks > 0

\* The stores as they are.
Now == World(urls, seq, cache, clock)

\* Two GetURL results that name the same record: identifier, short code,
\* original URL and creation time agree.
SameRecord(x, y) ==
    IF x = Nil \/ y = Nil THEN x = y
    ELSE /\ x.id = y.id /\ x.shortCode = y.shortCode
         /\ x.originalURL = y.originalURL /\ x.createdAt = y.createdAt

\* A call that would run next, alone, returns the same whether its cache calls
\* succeed or fail: CreateShortURL and IncrementClicks under every repository
\* fault, GetURL with a repository that answers.  same(x, y) compares the
\* records two GetURL calls return.
CacheFailureChangesNothing(same(_, _)) ==
    /\ \A c \in Codes, u \in URLs, fe \in Faults(backend), fc \in Faults(backend) :
          LET x == SvcCreateShortURL("redis", backend, Now, c, u, BaseURL, fe, fc, "none")
          IN  \A fs \in CacheFaults \ {"none"} :
                LET y == SvcCreateShortURL("redis", backend, Now, c, u, BaseURL, fe, fc, fs)
                IN  y.err = x.err /\ y.val = x.val /\ y.err \notin CacheErrs
    /\ \A c \in Codes, fw \in Faults(backend), ff \in Faults(backend) :
          LET x == SvcIncrementClicks("redis", backend, Now, c, fw, ff, "none")
          IN  \A fs \in CacheFaults \ {"none"} :
                LET y == SvcIncrementClicks("redis", backend, Now, c, fw, ff, fs)
                IN  y.err = x.err /\ y.val = x.val /\ y.err \notin CacheErrs
    /\ \A c \in Codes :
          LET x == GetURLNow(c, "none", "none")
          IN  \A fg \in CacheFaults, fs \in CacheFaults :
                LET y == GetURLNow(c, fg, fs)
                IN  y.err = x.err /\ same(x.val, y.val) /\ y.err \notin CacheErrs

C8_NoOpCacheIsTransparent ==
    /\ urls = direct.urls /\ seq = direct.seq /\ clock = direct.clock
    /\ cache = [k \in Keys |-> Nil]
    /\ last.err = direct.err
    /\ last.err # NoErr => (last.val = Nil /\ direct.val = Nil)
    /\ (last.op = "create" /\ last.err = NoErr) =>
          /\ last.val.shortURL = direct.val.shortURL
          /\ last.val.shortCode = direct.val.shortCode
          /\ last.val.originalURL = direct.val.originalURL
          /\ last.val.createdAt = direct.val.createdAt
    /\ last.op = "get" => last.val = direct.val

\* Both services have resolved a short code that was created and clicked.
C8_Witness ==
    /\ last.op = "get" /\ last.err = NoErr
    /\ last.val.clicks = 1
    /\ direct.val = last.val

\* C9: a call a backend fault hit returns an infrastructure error, never
\* ErrShortCodeExists nor ErrURLNotFound, in whichever backend; a
\* CreateShortURL returns ErrShortCodeExists only for a short code that is
\* stored, a GetURL or IncrementClicks ErrURLNotFound only for one that is not.
C9_BackendFaultIsNotADomainError ==
    /\ last.faulted => last.err \in InfraErrs
    /\ (last.op = "create" /\ last.err = ErrShortCodeExists) => urls[last.code] # Nil
    /\ (last.op \in {"get", "inc"} /\ last.err = ErrURLNotFound) => urls[last.code] = Nil

\* C10: a call during one of whose repository calls the context was cancelled
\* returns an infrastructure error: not success, not ErrShortCodeExists, not
\* ErrURLNotFound.
C10_CancelledIsUnavailable ==
    last.cancelled => last.err \in InfraErrs

\* Worker p has the record its repository IncrementClicks returned and has not
\* returned yet.
HoldsIncremented(p) == loc[p].op = "inc" /\ pc[p] \in {"marshal", "store"}

\* C11: the repository IncrementClicks calls that run at once on one record
\* return pairwise different click counts (the record as that call updated
\* it), here in the backends that return a copy of the record.
C11_ReturnedCountsDiffer ==
    \A p \in Procs, q \in Procs :
        (/\ p # q /\ backend # "memory"
         /\ HoldsIncremented(p) /\ HoldsIncremented(q)
         /\ loc[p].code = loc[q].code)
        => loc[p].rec.clicks # loc[q].rec.clicks

\* The step is worker p's repository statement that increments the clicks of c.
IncrementsClicksOf(c) ==
    \E p \in Procs : pc[p] = "inc_write" /\ pc'[p] # "inc_write" /\ loc[p].code = c

\* C12: a record is stored with click count 0; a click count never decreases;
\* it changes only in a step of the repository's IncrementClicks on that
\* record, and then by exactly 1.
C12_ClicksOnlyIncrement ==
    [][\A c \in Codes :
          /\ (urls[c] = Nil /\ urls'[c] # Nil) => urls'[c].clicks = 0
          /\ urls[c] # Nil =>
                /\ urls'[c] # Nil
                /\ urls'[c].clicks >= urls[c].clicks
                /\ urls'[c].clicks # urls[c].clicks =>
                      (IncrementsClicksOf(c) /\ urls'[c].clicks = urls[c].clicks + 1)]_vars

\* The second IncrementClicks on a record has returned, while the other short
\* code is not stored.
C12_Witness ==
    /\ AllIdle /\ last.op = "inc" /\ last.err = NoErr
    /\ urls[last.code].clicks = 2
    /\ \E c \in Codes : urls[c] = Nil

\* C13: a stored record keeps its short code, original URL, identifier and
\* creation time; a stored record changes only in a step of the repository's
\* IncrementClicks on its short code.
C13_RecordsAreImmutable ==
    [][\A c \in Codes :
          urls[c] # Nil =>
             /\ urls'[c] # Nil
             /\ urls'[c].shortCode = urls[c].shortCode
             /\ urls'[c].originalURL = urls[c].originalURL
             /\ urls'[c].id = urls[c].id
             /\ urls'[c].createdAt = urls[c].createdAt
             /\ urls'[c] # urls[c] => IncrementsClicksOf(c)]_vars

\* Two records are stored and one of them has been clicked, its time of last
\* update moved, the other left as created.
C13_Witness ==
    \E c \in Codes, e \in Codes :
        /\ c # e /\ urls[c] # Nil /\ urls[e] # Nil
        /\ urls[c].clicks = 1 /\ urls[c].updatedAt > urls[c].createdAt
        /\ urls[e].clicks = 0

\* C14: a GetURL or an IncrementClicks for a short code that was never created,
\* no backend fault hitting it, returns ErrURLNotFound and leaves the
\* repository and the cache as they were, the cache without an entry for the
\* code.
C14_UnknownCodeNotFound ==
    [][(/\ last'.op \in {"get", "inc"}
        /\ submitted'[last'.code] = ""
        /\ ~last'.faulted)
       => (/\ last'.err = ErrURLNotFound
           /\ urls' = urls /\ seq' = seq /\ cache' = cache
           /\ urls'[last'.code] = Nil
           /\ cache'[buildKey(last'.code)] = Nil)]_vars

\* An IncrementClicks for an unknown code has returned ErrURLNotFound while
\* the other code is stored and cached.
C14_Witness ==
    /\ last.op = "inc" /\ last.err = ErrURLNotFound /\ ~last.faulted
    /\ urls[last.code] = Nil
    /\ \E c \in Codes : urls[c] # Nil /\ cache[buildKey(c)] # Nil

\* C20: a GetURL that missed the cache and found the record returns with the
\* cache holding, when its cache Set succeeded, an entry for the code equal to
\* the record it returns; a GetURL that missed the cache and did not find the
\* record returns with no entry for the code in the cache.
C20_ReadThrough ==
    (last.op = "get" /\ ~last.hit) =>
        /\ (last.err = NoErr /\ last.setOk) =>
              /\ cache[buildKey(last.code)] # Nil
              /\ Unmarshal(cache[buildKey(last.code)].data) = last.val
        /\ last.err = ErrURLNotFound => cache[buildKey(last.code)] = Nil

\* The requests C15 names: the url is empty or malformed, or the custom code
\* is present and shorter than 3, longer than 20, or not alphanumeric.
InvalidRequest(body) ==
    \/ body.url = ""
    \/ body.url \notin URLs
    \/ /\ body.customAlias # <<>>
       /\ \/ Len(body.customAlias) < 3
          \/ Len(body.customAlias) > 20
          \/ \E i \in 1..Len(body.customAlias) :
                body.customAlias[i] \notin Lower \cup Upper \cup Digits

\* C15: CreateShortURL answers every such request with a validation error
\* and leaves the repository and the cache as they were.
C15_InvalidRequestRejected ==
    [][(http'.op = "shorten" /\ http'.body.decodes /\ InvalidRequest(http'.body))
        => /\ http'.err \in ValidationErrs
           /\ http'.result = Nil
           /\ urls' = urls /\ seq' = seq /\ cache' = cache /\ clock' = clock]_vars

\* A 21-character alphanumeric alias was rejected while a record is stored.
C15_Witness ==
    /\ http.op = "shorten"
    /\ http.body.url \in URLs
    /\ http.body.customAlias = Fill(MaxAlias + 1, "Z")
    /\ http.err \in ValidationErrs
    /\ \E c \in HTTPCodes : urls[c] # Nil /\ cache[buildKey(c)] # Nil

\* C16: a request with a well-formed url and a custom code of 3 to 20
\* alphanumeric characters that is not stored yet, whose repository calls meet
\* no fault, succeeds; the response carries the custom code character for
\* character, and the record is stored under exactly that code, every other
\* code being left alone.
C16_CustomCodeKept ==
    [][(/\ http'.op = "shorten" /\ http'.body.decodes
        /\ ~InvalidRequest(http'.body)
        /\ http'.body.customAlias # <<>>
        /\ urls[Text(http'.body.customAlias)] = Nil
        /\ ~http'.unavailable)
        => LET alias == Text(http'.body.customAlias)
           IN  /\ http'.err = NoErr
               /\ http'.result # Nil
               /\ http'.result.shortCode = alias
               /\ urls'[alias] # Nil
               /\ urls'[alias].shortCode = alias
               /\ urls'[alias].originalURL = http'.body.url
               /\ \A c \in HTTPCodes \ {alias} : urls'[c] = urls[c]]_vars

\* A 20-character alias ending in a capital was created next to another code.
C16_Witness ==
    /\ http.op = "shorten"
    /\ http.body.customAlias = Fill(MaxAlias, "Z")
    /\ http.err = NoErr
    /\ http.result.shortCode = Text(Fill(MaxAlias, "Z"))
    /\ urls[Text(Fill(MaxAlias, "Z"))] # Nil
    /\ urls[Text(Fill(MinAlias, "a"))] # Nil
\* The short codes made of alphanumeric characters only.
AlnumCodes ==
    {Text(Fill(n, e)) : n \in 1..(MaxAlias + 1), e \in Endings \cap (Lower \cup Upper \cup Digits)}

\* C17: the short code of a successful CreateShortURL without a custom code
\* has the configured length app.short_code_length and is alphanumeric.
C17_GeneratedCodeHasConfiguredLength ==
    (/\ http.op = "shorten" /\ http.body.decodes
     /\ http.body.customAlias = <<>>
     /\ http.err = NoErr)
    => /\ Len(http.result.shortCode) = config.shortCodeLength
       /\ http.result.shortCode \in AlnumCodes
\* Whether the status of the response to every request that can come next
\* is the one the same request gets when no cache call fails.
CacheFailureKeepsStatus ==
    ops < MaxRequests =>
        LET w == World(urls, seq, cache, clock)
            Calm(f) == [f EXCEPT !.get = "none", !.set = "none", !.reset = "none"]
        IN  /\ \A body \in Bodies, t \in Readings, fe \in Faults(backend),
                  fc \in Faults(backend), fs \in CacheFaults :
                    LET f == [NoFaults EXCEPT !.exists = fe, !.create = fc, !.set = fs]
                    IN  HandleShorten(backend, w, body, config.baseURL, t, f).status
                        = HandleShorten(backend, w, body, config.baseURL, t, Calm(f)).status
            /\ \A code \in RedirectCodes, fg \in CacheFaults, fr \in Faults(backend),
                  fs \in CacheFaults :
                    LET f == [NoFaults EXCEPT !.get = fg, !.find = fr, !.set = fs]
                    IN  (RedisGet(cache, code, "none").url = Nil)
                        => HandleRedirect(backend, w, code, f).status
                           = HandleRedirect(backend, w, code, Calm(f)).status

\* The status the request just answered must have by its cause.
StatusByCause ==
    /\ (http'.op = "shorten" /\ http'.body.decodes) =>
          /\ InvalidRequest(http'.body) => http'.status = 400
          /\ (~InvalidRequest(http'.body) /\ ~http'.unavailable /\ urls[http'.code] # Nil)
                => http'.status = 409
          /\ http'.unavailable => http'.status \in 500..599
    /\ http'.op = "redirect" =>
          /\ (urls[http'.code] = Nil /\ ~http'.unavailable) => http'.status = 404
          /\ http'.unavailable => http'.status \in 500..599

\* C18: at the HTTP boundary a creation whose code is already stored is
\* answered 409, a validation failure 400, a lookup of a code that was never
\* created 404, a create or a lookup whose repository call fails or is
\* cancelled 5xx, and a cache failure changes no status.
C18_StatusByCause ==
    /\ [][StatusByCause]_vars
    /\ []CacheFailureKeepsStatus
\* C19: once GetURL has returned a record, HandleRedirect answers with the
\* redirect to the record's original URL, whether IncrementClicks returned
\* an error or not.
C19_RedirectWhateverIncrement ==
    [][(http'.op = "redirect" /\ http'.err = NoErr)
        => /\ http'.incErr # ""
           /\ http'.status = StatusMovedPermanently
           /\ urls[http'.code] # Nil
           /\ http'.location = urls[http'.code].originalURL]_vars

\* A redirect was answered although its IncrementClicks failed.
C19_Witness ==
    /\ http.op = "redirect"
    /\ http.err = NoErr
    /\ http.incErr \notin {"", NoErr}
    /\ http.status = StatusMovedPermanently
    /\ http.location \in URLs
\* The record the repository returns for a code when asked now.
Current(code) == RepoFindByShortCode(backend, urls, seq, code, "none").rec

\* C21: a GetURL that ran on its own and hit the cache returned from the cache
\* call with the cached record, whatever the repository holds by now; one
\* that missed (the entry was deleted or has expired) returned the
\* repository's current record, and when its cache Set succeeded the cache
\* holds that record again.
C21_HitServesCacheMissServesRepository ==
    (last.op = "get" /\ last.solo /\ last.err = NoErr) =>
        LET entry == cache[buildKey(last.code)]
        IN  IF last.hit
            THEN /\ last.at = "get_cache"
                 /\ entry # Nil
                 /\ last.val = Unmarshal(entry.data)
            ELSE /\ last.val = Current(last.code)
                 /\ last.setOk => (entry # Nil /\ Unmarshal(entry.data) = Current(last.code))

\* A hit has returned a click count the repository no longer holds.
C21_Witness ==
    /\ last.op = "get" /\ last.solo /\ last.hit
    /\ urls[last.code] # Nil
    /\ last.val.clicks = 0
    /\ urls[last.code].clicks = 1
\* C22: a CreateShortURL that runs on its own leaves the cache without an
\* entry for its code until the repository Create has stored the record; once
\* it has returned successfully with its cache Set done, the cache holds the
\* record the repository stored, with its identifier and click count 0, and
\* the GetURL that follows returns that entry: click count 0 and the
\* submitted URL.
C22_CreateWritesThrough ==
    /\ \A p \in Procs :
          (/\ loc[p].op = "create" /\ loc[p].solo
           /\ pc[p] \in {"cr_exists", "cr_create"}
           /\ urls[loc[p].code] = Nil)
          => cache[buildKey(loc[p].code)] = Nil
    /\ (last.op = "create" /\ last.err = NoErr /\ last.solo /\ last.setOk) =>
          LET entry == cache[buildKey(last.code)]
          IN  /\ entry # Nil
              /\ entry.data.id = urls[last.code].id
              /\ entry.data.clicks = 0
              /\ \A fs \in CacheFaults :
                    LET g == GetURLNow(last.code, "none", fs)
                    IN  /\ g.err = NoErr
                        /\ g.val = Unmarshal(entry.data)
                        /\ g.val.clicks = 0
                        /\ g.val.originalURL = submitted[last.code]
                        /\ g.w = Now

\* A second record has been created and cached, with the second identifier.
C22_Witness ==
    /\ last.op = "create" /\ last.err = NoErr /\ last.solo /\ last.setOk
    /\ cache[buildKey(last.code)] # Nil
    /\ cache[buildKey(last.code)].data.id = 2
    /\ last.val.id = 2
\* Worker p is about to read, in json.Marshal and with no lock held, the
\* fields of the record the memory repository stores under code c.
ReadsShared(p, c) ==
    /\ backend = "memory"
    /\ pc[p] = "marshal"
    /\ loc[p].code = c

\* Worker q is about to write, in the memory repository's IncrementClicks,
\* the fields of the record stored under code c.
WritesShared(q, c) ==
    /\ backend = "memory"
    /\ pc[q] = "inc_write"
    /\ loc[q].code = c
    /\ urls[c] # Nil

\* C23: no worker reads the fields of a record of the in-memory backend
\* outside its lock while another worker's IncrementClicks is about to write
\* them: such a read and such a write are never both about to happen.
C23_NoUnlockedRead ==
    \A p \in Procs, q \in Procs, c \in Codes :
        p # q => ~(ReadsShared(p, c) /\ WritesShared(q, c))
\* C24: the response of every successful CreateShortURL carries the short
\* URL made of the base URL it was given, "/" and its short code; the record
\* is stored under that short code, and the original URL is the request's.
C24_ResponseView ==
    (http.op = "shorten" /\ http.err = NoErr) =>
        /\ http.result # Nil
        /\ http.result.shortCode = http.code
        /\ http.result.shortURL = config.baseURL \o "/" \o http.result.shortCode
        /\ http.result.originalURL = http.body.url
        /\ urls[http.result.shortCode] # Nil
        /\ urls[http.result.shortCode].shortCode = http.result.shortCode
        /\ urls[http.result.shortCode].originalURL = http.body.url

\* A generated code was answered under a base URL that is not the default.
C24_Witness ==
    /\ http.op = "shorten" /\ http.err = NoErr
    /\ http.body.customAlias = <<>>
    /\ config.baseURL # BaseURL
    /\ http.result.shortURL = "https://dove.example/aaaaaZ"
\* C25: every entry a call writes into the cache (an entry that is new, has
\* new data or has more time left than before) has the configured TTL to
\* live, no entry ever has more than that left, so that a copy, stale or not,
\* is served for at most the TTL after it was written; and a GetURL that
\* finds no entry, the entry having expired, returns the repository's
\* current record.
C25_StalenessBoundedByTTL ==
    [][/\ \A k \in Keys :
            cache'[k] # Nil =>
                /\ cache'[k].ttl \in 1..CacheTTL
                /\ (\/ cache[k] = Nil
                    \/ cache'[k].data # cache[k].data
                    \/ cache'[k].ttl > cache[k].ttl) => cache'[k].ttl = CacheTTL
       /\ (last'.op = "get" /\ last'.err = NoErr /\ ~last'.hit) =>
            last'.val = RepoFindByShortCode(backend, urls', seq', last'.code, "none").rec]_vars

\* A copy with a click count the repository no longer holds is served when
\* half its TTL has passed.
C25_Witness ==
    /\ last.op = "get" /\ last.hit
    /\ last.val.clicks # urls[last.code].clicks
    /\ cache[buildKey(last.code)] # Nil
    /\ cache[buildKey(last.code)].ttl < CacheTTL
\* C26: once Close has returned success, every later Close returns success
\* as well and changes neither the handle nor the stored records, in each
\* backend.
C26_CloseIsIdempotent ==
    [][(last'.op = "close" /\ db.closes > 0 /\ db.first = NoErr)
        => /\ last'.err = NoErr
           /\ db'.state = db.state
           /\ urls' = urls /\ seq' = seq]_vars

\* A repository that holds a record has been closed for the second time.
C26_Witness ==
    /\ last.op = "close" /\ last.err = NoErr
    /\ db.closes = 2 /\ db.first = NoErr
    /\ \E c \in Codes : urls[c] # Nil
\* C27: the step of CreateShortURL that follows its Exists probe changes
\* neither the repository nor the cache; when the code is stored the call
\* returns from the probe, with ErrShortCodeExists unless the probe failed,
\* and when the probe failed the call returns the probe's error: in both
\* cases Create is not reached.
C27_ProbeStopsCreate ==
    [][\A p \in Procs :
          (pc[p] = "cr_exists" /\ pc'[p] # "cr_exists") =>
              /\ urls' = urls /\ seq' = seq /\ cache' = cache
              /\ urls[loc[p].code] # Nil =>
                    /\ pc'[p] = "idle"
                    /\ last'.op = "create" /\ last'.at = "cr_exists"
                    /\ ~last'.faulted => last'.err = ErrShortCodeExists
              /\ pc'[p] = "idle" =>
                    /\ last'.op = "create" /\ last'.at = "cr_exists"
                    /\ last'.err # NoErr /\ last'.val = Nil
                    /\ last'.faulted => last'.err \in InfraErrs
              /\ pc'[p] # "idle" => (pc'[p] = "cr_create" /\ urls[loc[p].code] = Nil)]_vars

\* The probe has found a code that is stored and cached, and the call has
\* returned from it.
C27_Witness ==
    /\ last.op = "create" /\ last.at = "cr_exists"
    /\ last.err = ErrShortCodeExists
    /\ urls[last.code] # Nil
    /\ cache[buildKey(last.code)] # Nil
C29_QuiescentCacheIsCurrent ==
    (AllIdle /\ ~setFailed) =>
        \A c \in Codes :
            cache[buildKey(c)] # Nil =>
                /\ urls[c] # Nil
                /\ Unmarshal(cache[buildKey(c)].data).clicks = urls[c].clicks
\* C30: in every state, in flight or not, a cache entry is kept under the
\* key of a short code the repository stores, and its short code, original
\* URL and identifier are those of the repository's record.
C30_CacheHoldsStoredRecords ==
    \A c \in Codes :
        cache[buildKey(c)] # Nil =>
            /\ urls[c] # Nil
            /\ Unmarshal(cache[buildKey(c)].data).shortCode = c
            /\ Unmarshal(cache[buildKey(c)].data).shortCode = urls[c].shortCode
            /\ Unmarshal(cache[buildKey(c)].data).originalURL = urls[c].originalURL
            /\ Unmarshal(cache[buildKey(c)].data).id = urls[c].id

\* Both codes are stored and cached while a call is in flight, and one entry
\* has a click count the repository no longer holds.
C30_Witness ==
    /\ ~AllIdle
    /\ \A c \in Codes : urls[c] # Nil /\ cache[buildKey(c)] # Nil
    /\ \E c \in Codes : cache[buildKey(c)].data.clicks # urls[c].clicks
\* C31: in every state a cached click count is at most the click count the
\* repository holds for that short code, and a GetURL that returns never
\* reports more clicks than the repository holds.
C31_CachedClicksNeverAhead ==
    /\ \A c \in Codes :
           cache[buildKey(c)] # Nil =>
               /\ urls[c] # Nil
               /\ Unmarshal(cache[buildKey(c)].data).clicks <= urls[c].clicks
    /\ (last.op = "get" /\ last.err = NoErr) =>
           /\ urls[last.code] # Nil
           /\ last.val.clicks <= urls[last.code].clicks

\* A cached count lags behind the repository's while a GetURL returns it.
C31_Witness ==
    /\ last.op = "get" /\ last.err = NoErr
    /\ cache[buildKey(last.code)] # Nil
    /\ last.hit
    /\ last.val.clicks < urls[last.code].clicks
\* What Exists and FindByShortCode answer when called in the current state.
ExistsNow(code, f) == RepoExists(backend, urls, seq, code, f)
FindNow(code, f) == RepoFindByShortCode(backend, urls, seq, code, f)

\* C32: in every state Exists(code) returns true exactly when
\* FindByShortCode(code) returns a record, and no step takes a short code for
\* which Exists returns true to a state where it returns false.
C32_ExistsIffFound ==
    /\ [](\A c \in Codes, f \in Faults(backend) :
              /\ (ExistsNow(c, f).rec = TRUE) <=> (FindNow(c, f).err = NoErr)
              /\ (FindNow(c, f).err = NoErr) => FindNow(c, f).rec.shortCode = c)
    /\ [][\A c \in Codes :
              ExistsNow(c, "none").rec => (ExistsNow(c, "none").rec)']_vars

\* One short code is stored, found and reported present after an increment
\* changed its record, the other is neither found nor reported present.
C32_Witness ==
    \E c \in Codes, d \in Codes :
        /\ ExistsNow(c, "none").rec /\ FindNow(c, "none").err = NoErr
        /\ FindNow(c, "none").rec.clicks > 0
        /\ ~ExistsNow(d, "none").rec /\ FindNow(d, "none").err = ErrURLNotFound
\* C33: after a successful Create, FindByShortCode of the created short code
\* returns a record equal in every attribute to the one Create returned:
\* identifier, short code, original URL, click count, creation timestamp and
\* last-modified timestamp, in each backend.
C33_FindReturnsCreated ==
    (last.op = "create" /\ last.err = NoErr) =>
        /\ FindNow(last.code, "none").err = NoErr
        /\ FindNow(last.code, "none").rec = last.val
\* The handlers whose handleShorten answered 201.
Created == {h \in Handlers : handlers[h].op = "shorten" /\ handlers[h].status = StatusCreated}

\* C34: in the single-file service no two handleShorten run their existence
\* check and insert at once; a handleShorten with a valid body whose short
\* code no other request asked for answers 201 and the store holds its
\* record; and when every handler has answered, the store holds exactly one
\* record per request that got 201, so N concurrent requests with N pairwise
\* distinct valid aliases all succeed and leave exactly N records.
C34_DistinctAliasesAllStored ==
    /\ \A h \in Handlers : \A g \in Handlers \ {h} :
           ~(handlers[h].pc \in {"check", "insert"} /\ handlers[g].pc \in {"check", "insert"})
    /\ \A h \in Handlers :
           (/\ handlers[h].op = "shorten" /\ handlers[h].pc = "done"
            /\ handlers[h].body.decodes /\ Validate(handlers[h].body) = NoErr
            /\ \A g \in Handlers \ {h} :
                   handlers[g].op = "shorten" => handlers[g].shortCode # handlers[h].shortCode)
           => /\ handlers[h].status = StatusCreated
              /\ store.urls[handlers[h].shortCode] # Nil
              /\ store.urls[handlers[h].shortCode].shortCode = handlers[h].shortCode
              /\ store.urls[handlers[h].shortCode].originalURL = handlers[h].body.url
    /\ (\A h \in Handlers : handlers[h].pc = "done") =>
           /\ Stored(store.urls) = {handlers[h].shortCode : h \in Created}
           /\ Cardinality(Stored(store.urls)) = Cardinality(Created)

\* Every handler has served a handleShorten with a custom alias of its own,
\* the aliases are pairwise distinct, all got 201 and the store holds as many
\* records as there are handlers.
C34_Witness ==
    /\ \A h \in Handlers :
           /\ handlers[h].pc = "done" /\ handlers[h].op = "shorten"
           /\ handlers[h].body.customAlias \in MainAliases
           /\ handlers[h].status = StatusCreated
    /\ \A h \in Handlers : \A g \in Handlers \ {h} :
           handlers[h].body.customAlias # handlers[g].body.customAlias
    /\ Cardinality(Stored(store.urls)) = MaxHandlers
\* C35: in the in-memory repository the stored records have pairwise
\* distinct identifiers in every state; the Create that stores the k-th
\* record gives it identifier k; and a step that stores nothing, a failed
\* Create included, leaves every identifier as it was, so the next record
\* stored still gets the next number.
C35_IdentifiersCountCreates ==
    /\ [](backend = "memory" =>
            /\ \A c \in Codes : \A d \in Codes \ {c} :
                   (urls[c] # Nil /\ urls[d] # Nil) => urls[c].id # urls[d].id
            /\ {urls[c].id : c \in Stored(urls)} = 1..Cardinality(Stored(urls)))
    /\ [][backend = "memory" =>
            \A c \in Codes :
                /\ (urls[c] = Nil /\ urls'[c] # Nil) =>
                       urls'[c].id = Cardinality(Stored(urls)) + 1
                /\ urls[c] # Nil => (urls'[c] # Nil /\ urls'[c].id = urls[c].id)]_vars

\* The in-memory repository holds two records, numbered 1 and 2, and a
\* Create of a stored short code has just failed.
C35_Witness ==
    /\ backend = "memory"
    /\ \A c \in Codes : urls[c] # Nil
    /\ {urls[c].id : c \in Codes} = {1, 2}
    /\ last.op = "create" /\ last.at = "cr_create" /\ last.err = ErrShortCodeExists
\* C36: no CreateShortURL returns ErrInvalidShortCode or ErrInvalidURL: once
\* the validation has passed, the short code it works on and the url are not
\* empty (a generated code has 6 characters, a custom one at least 3), so
\* NewURL does not fail.
C36_NewURLNeverFails ==
    http.op = "shorten" =>
        /\ http.err \notin {ErrInvalidShortCode, ErrInvalidURL}
        /\ (http.body.decodes /\ Validate(http.body) = NoErr) =>
               /\ http.code # "" /\ http.body.url # ""
               /\ NewURL(http.code, http.body.url, clock).err = NoErr
               /\ IF http.body.customAlias = <<>>
                  THEN \E t \in Readings : /\ http.code = Text(generateShortCode(t))
                                           /\ Len(generateShortCode(t)) = 6
                  ELSE Len(http.body.customAlias) >= 3

\* A request without a custom alias passed the validation and its record,
\* built by NewURL under a generated code, was stored.
C36_Witness ==
    /\ http.op = "shorten" /\ http.status = StatusCreated
    /\ http.body.customAlias = <<>>
    /\ urls[http.code] # Nil
    /\ urls[http.code].originalURL = http.body.url
====
